---- MODULE Spec2Model ----
(***************************************************************************)
(* Live recitation alignment and session engine (Mangkidals/Fast_Api).     *)
(*                                                                         *)
(* Two session services are modelled, as they are in the repository:       *)
(*   - LiveSessionService (services/live_session.py): database-backed,     *)
(*     with an in-process cache active_sessions;                           *)
(*   - MemoryLiveSessionService / MemorySessionStore                       *)
(*     (services/memory_sessions.py): in-memory, persisted at End;         *)
(* and the pure alignment functions of services/alignment.py.              *)
(*                                                                         *)
(* Text is a sequence of character codes (see the character classes        *)
(* below); a similarity score is an exact rational <<num, den>> in lowest  *)
(* terms.                                                                  *)
(*                                                                         *)
(* A request handler is a coroutine.  It occupies a slot of procs from the *)
(* moment it is accepted; one step of the model runs it from one           *)
(* suspension point to the next.  Consecutive awaits between which the     *)
(* handler neither reads nor writes shared state are one suspension point; *)
(* an await of a coroutine that never suspends (the loggers of             *)
(* utils/logging.py, a cache hit of _get_session_data) is no suspension    *)
(* point.  An external call either returns or raises (IoOutcomes).         *)
(*                                                                         *)
(* Taken as they are meant rather than as written:                         *)
(*   - LiveSession(...) is built without its required field session_id     *)
(*     (models/session.py:27); the construction is taken to succeed, as    *)
(*     the repository's tests take it;                                     *)
(*   - a row of live_sessions is found under the id the service uses,      *)
(*     although create_live_session does not send that id                  *)
(*     (services/supabase.py:117-127).                                     *)
(* Time stamps, user ids, surah ids (one surah) and the counters of        *)
(* _session_metadata are left out.                                         *)
(***************************************************************************)
EXTENDS Integers, Sequences, FiniteSets, TLC

(***************************************************************************)
(* Characters.  One representative per class the normalisers distinguish.  *)
(***************************************************************************)
SP     == 0      \* ' '  whitespace
LA     == 1      \* 'a'
LB     == 2      \* 'b'
LC     == 3      \* 'c'
LD     == 4      \* 'd'
UA     == 5      \* 'A'  upper case of LA
PUNCT  == 6      \* ','  one of . , ; : ! ? ( ) " ' -
AB     == 11     \* U+0628 beh
AS     == 12     \* U+0633 seen
AM     == 13     \* U+0645 meem
AL     == 14     \* U+0644 lam
DIAC   == 19     \* U+0650 kasra: a combining mark inside the Arabic block

IsCombining(c) == c = DIAC
IsArabicChar(c) == c \in {AB, AS, AM, AL, DIAC}
IsPunct(c) == c = PUNCT
Lower(c) == IF c = UA THEN LA ELSE c

(***************************************************************************)
(* Sequence helpers (Python str methods).                                  *)
(***************************************************************************)
\* ''.join(c for c in ... if not unicodedata.combining(c))
RECURSIVE StripCombining(_)
StripCombining(s) ==
    IF s = <<>> THEN <<>>
    ELSE (IF IsCombining(Head(s)) THEN <<>> ELSE <<Head(s)>>) \o StripCombining(Tail(s))

\* re.sub(r'[.,;:!?()"\'\-]', '', text)
RECURSIVE StripPunct(_)
StripPunct(s) ==
    IF s = <<>> THEN <<>>
    ELSE (IF IsPunct(Head(s)) THEN <<>> ELSE <<Head(s)>>) \o StripPunct(Tail(s))

MapLower(s) == [i \in 1..Len(s) |-> Lower(s[i])]

\* str.split(): the maximal runs of non-whitespace characters, in order
RECURSIVE SplitFrom(_, _)
SplitFrom(s, cur) ==
    IF s = <<>> THEN (IF cur = <<>> THEN <<>> ELSE <<cur>>)
    ELSE IF Head(s) = SP
         THEN (IF cur = <<>> THEN <<>> ELSE <<cur>>) \o SplitFrom(Tail(s), <<>>)
         ELSE SplitFrom(Tail(s), Append(cur, Head(s)))

Split(s) == SplitFrom(s, <<>>)

RECURSIVE JoinWords(_)
JoinWords(ws) ==
    IF ws = <<>> THEN <<>>
    ELSE IF Len(ws) = 1 THEN ws[1]
    ELSE ws[1] \o <<SP>> \o JoinWords(Tail(ws))

\* re.sub(r'\s+', ' ', text.strip()): trimmed, whitespace runs collapsed
CollapseSpaces(s) == JoinWords(Split(s))

(***************************************************************************)
(* TextNormalizer.                                                         *)
(***************************************************************************)
normalize_arabic_text(text) ==
    IF text = <<>> THEN <<>>
    ELSE MapLower(CollapseSpaces(StripCombining(text)))

normalize_latin_text(text) ==
    IF text = <<>> THEN <<>>
    ELSE StripPunct(CollapseSpaces(MapLower(text)))

is_arabic(text) == \E i \in 1..Len(text) : IsArabicChar(text[i])

(***************************************************************************)
(* Rationals <<num, den>>, den > 0, in lowest terms.                       *)
(* Intermediate values are handed on as operator arguments throughout, so  *)
(* that each function is written out once.                                 *)
(***************************************************************************)
RECURSIVE GCD(_, _)
GCD(a, b) == IF b = 0 THEN a ELSE GCD(b, a % b)

Reduce(n, d, g) == <<n \div g, d \div g>>
Rat(n, d) == IF n = 0 THEN <<0, 1>> ELSE Reduce(n, d, GCD(n, d))
RAdd(x, y) == Rat(x[1] * y[2] + y[1] * x[2], x[2] * y[2])
RMul(x, y) == Rat(x[1] * y[1], x[2] * y[2])
RLess(x, y) == x[1] * y[2] < y[1] * x[2]
RLeq(x, y) == x[1] * y[2] <= y[1] * x[2]

(***************************************************************************)
(* difflib.SequenceMatcher(None, a, b).ratio()                             *)
(***************************************************************************)
\* length of the common run of a from i and b from j, inside [i, ahi) x [j, bhi)
RECURSIVE RunLen(_, _, _, _, _, _)
RunLen(a, b, i, j, ahi, bhi) ==
    IF i < ahi /\ j < bhi /\ a[i] = b[j] THEN 1 + RunLen(a, b, i + 1, j + 1, ahi, bhi)
    ELSE 0

\* the longest block of K, earliest in a, then earliest in b
BestBlock(K, alo, blo) ==
    IF DOMAIN K = {} THEN <<alo, blo, 0>>
    ELSE LET best == CHOOSE c \in DOMAIN K :
                 \A d \in DOMAIN K :
                    \/ K[c] > K[d]
                    \/ K[c] = K[d] /\ c[1] < d[1]
                    \/ K[c] = K[d] /\ c[1] = d[1] /\ c[2] <= d[2]
         IN  <<best[1], best[2], K[best]>>

\* find_longest_match
LongestMatch(a, b, alo, ahi, blo, bhi) ==
    BestBlock([c \in {x \in (alo..(ahi - 1)) \X (blo..(bhi - 1)) : a[x[1]] = b[x[2]]}
                 |-> RunLen(a, b, c[1], c[2], ahi, bhi)],
              alo, blo)

\* get_matching_blocks: total size of the blocks found by recursive splitting
RECURSIVE MatchingSize(_, _, _, _, _, _)
RECURSIVE MatchingAround(_, _, _, _, _, _, _)
MatchingAround(a, b, alo, ahi, blo, bhi, m) ==
    IF m[3] = 0 THEN 0
    ELSE m[3]
         + (IF alo < m[1] /\ blo < m[2]
            THEN MatchingSize(a, b, alo, m[1], blo, m[2]) ELSE 0)
         + (IF m[1] + m[3] < ahi /\ m[2] + m[3] < bhi
            THEN MatchingSize(a, b, m[1] + m[3], ahi, m[2] + m[3], bhi) ELSE 0)

MatchingSize(a, b, alo, ahi, blo, bhi) ==
    MatchingAround(a, b, alo, ahi, blo, bhi, LongestMatch(a, b, alo, ahi, blo, bhi))

SeqRatio(a, b) ==
    IF Len(a) + Len(b) = 0 THEN <<1, 1>>
    ELSE Rat(2 * MatchingSize(a, b, 1, Len(a) + 1, 1, Len(b) + 1), Len(a) + Len(b))

(***************************************************************************)
(* Levenshtein.distance                                                    *)
(***************************************************************************)
Min2(x, y) == IF x <= y THEN x ELSE y
Max2(x, y) == IF x >= y THEN x ELSE y

RECURSIVE levenshtein_distance(_, _)
levenshtein_distance(a, b) ==
    IF a = <<>> THEN Len(b)
    ELSE IF b = <<>> THEN Len(a)
    ELSE IF Head(a) = Head(b) THEN levenshtein_distance(Tail(a), Tail(b))
    ELSE 1 + Min2(levenshtein_distance(Tail(a), Tail(b)),
                  Min2(levenshtein_distance(Tail(a), b),
                       levenshtein_distance(a, Tail(b))))

(***************************************************************************)
(* SimilarityScorer: AlignmentService.calculate_similarity                 *)
(***************************************************************************)
similarity_threshold == <<7, 10>>
partial_threshold == <<3, 10>>

\* the inner loop over words2, given sims[i] = the ratio of word1 and words2[i]:
\* the first index of the highest ratio that reaches the threshold
WordSimPick(sims, acc) ==
    LET Cand == {i \in 1..Len(sims) :
                    i \notin acc.used /\ RLeq(similarity_threshold, sims[i])}
    IN  IF Cand = {} THEN acc
        ELSE LET b == CHOOSE i \in Cand : \A j \in Cand :
                         RLess(sims[j], sims[i]) \/ (sims[j] = sims[i] /\ i <= j)
             IN  [matches |-> RAdd(acc.matches, sims[b]), used |-> acc.used \cup {b}]

\* the loop over words1: acc = [matches, used]
RECURSIVE WordSimLoop(_, _, _)
WordSimLoop(words1, words2, acc) ==
    IF words1 = <<>> THEN acc
    ELSE WordSimLoop(Tail(words1), words2,
             WordSimPick([i \in 1..Len(words2) |-> SeqRatio(Head(words1), words2[i])],
                         acc))

calculate_word_similarity(words1, words2) ==
    IF words1 = <<>> /\ words2 = <<>> THEN <<1, 1>>
    ELSE IF words1 = <<>> \/ words2 = <<>> THEN <<0, 1>>
    ELSE RMul(WordSimLoop(words1, words2, [matches |-> <<0, 1>>, used |-> {}]).matches,
              <<1, Max2(Len(words1), Len(words2))>>)

\* 1.0 - lev_distance / max_len
lev_similarity(norm_text1, norm_text2, max_len) ==
    IF max_len = 0 THEN <<1, 1>>
    ELSE Rat(max_len - levenshtein_distance(norm_text1, norm_text2), max_len)

\* the weighted average of the last lines of calculate_similarity
final_similarity(seq_similarity, lev, words1, words2) ==
    IF Len(words1) > 1 \/ Len(words2) > 1
    THEN RAdd(RAdd(RMul(seq_similarity, <<4, 10>>), RMul(lev, <<4, 10>>)),
              RMul(calculate_word_similarity(words1, words2), <<2, 10>>))
    ELSE RAdd(RMul(seq_similarity, <<6, 10>>), RMul(lev, <<4, 10>>))

similarity_of_normalized(norm_text1, norm_text2) ==
    final_similarity(SeqRatio(norm_text1, norm_text2),
                     lev_similarity(norm_text1, norm_text2,
                                    Max2(Len(norm_text1), Len(norm_text2))),
                     Split(norm_text1), Split(norm_text2))

\* the normaliser calculate_similarity applies to both texts
normalize_for(latin, text) ==
    IF latin THEN normalize_latin_text(text) ELSE normalize_arabic_text(text)

calculate_similarity(text1, text2) ==
    IF text1 = <<>> \/ text2 = <<>> THEN <<0, 1>>
    ELSE similarity_of_normalized(
             normalize_for(~is_arabic(text1) \/ ~is_arabic(text2), text1),
             normalize_for(~is_arabic(text1) \/ ~is_arabic(text2), text2))

(***************************************************************************)
(* AlignmentEngine: AlignmentService.compare_transcript                    *)
(* A result is [position, expected, spoken, status, similarity_score];     *)
(* spoken and similarity_score are <<>> for None and <<v>> for a value.    *)
(***************************************************************************)
SearchFromStart(position, n) == [k \in 1..n |-> k - 1]

\* indices (0-based) of spoken_words in the order they are examined
SearchRange(position, n) ==
    [k \in 1..n |-> IF k <= n - Min2(position, n - 1)
                    THEN Min2(position, n - 1) + k - 1
                    ELSE k - (n - Min2(position, n - 1)) - 1]

PickBestAmongAll(order, sims, used) ==
    LET Cand == {k \in 1..Len(order) : RLess(<<0, 1>>, sims[k])}
    IN  IF Cand = {} THEN <<-1, <<0, 1>>>>
        ELSE LET b == CHOOSE k \in Cand : \A j \in Cand :
                         RLess(sims[j], sims[k]) \/ (sims[j] = sims[k] /\ k <= j)
             IN  <<order[b], sims[b]>>

PickBestLast(order, sims, used) ==
    LET Cand == {k \in 1..Len(order) : order[k] \notin used /\ RLess(<<0, 1>>, sims[k])}
    IN  IF Cand = {} THEN <<-1, <<0, 1>>>>
        ELSE LET b == CHOOSE k \in Cand : \A j \in Cand :
                         RLess(sims[j], sims[k]) \/ (sims[j] = sims[k] /\ k >= j)
             IN  <<order[b], sims[b]>>

\* the first index, in search order, of the highest similarity above 0 among the
\* unused spoken words: <<best_match_idx, best_similarity>>, or -1 and 0
PickBest(order, sims, used) ==
    LET Cand == {k \in 1..Len(order) : order[k] \notin used /\ RLess(<<0, 1>>, sims[k])}
    IN  IF Cand = {} THEN <<-1, <<0, 1>>>>
        ELSE LET b == CHOOSE k \in Cand : \A j \in Cand :
                         RLess(sims[j], sims[k]) \/ (sims[j] = sims[k] /\ k <= j)
             IN  <<order[b], sims[b]>>

BestMatch(expected_word, spoken_words, position, used) ==
    PickBest(SearchRange(position, Len(spoken_words)),
             [k \in 1..Len(spoken_words) |->
                 calculate_similarity(expected_word,
                     spoken_words[SearchRange(position, Len(spoken_words))[k] + 1])],
             used)

ZeroSummaryOfResults(total) == [matched |-> 0, mismatched |-> 0, skipped |-> 0, total |-> 0]

ZeroSummary(total) == [matched |-> 0, mismatched |-> 0, skipped |-> 0, total |-> total]

SkippedResult(expected_word, position) ==
    [position |-> position, expected |-> expected_word, spoken |-> <<>>,
     status |-> "skipped", similarity_score |-> <<>>]

ClassifyPartialFrom(expected_word, position, spoken_words, is_final, acc, bm) ==
    LET hit(st) == [position |-> position, expected |-> expected_word,
                    spoken |-> <<spoken_words[bm[1] + 1]>>,
                    status |-> st, similarity_score |-> <<bm[2]>>]
    IN  IF bm[1] >= 0 /\ RLeq(similarity_threshold, bm[2])
        THEN [results |-> Append(acc.results,
                            hit(IF is_final THEN "matched" ELSE "provis_matched")),
              summary |-> IF is_final
                          THEN [acc.summary EXCEPT !.matched = @ + 1]
                          ELSE acc.summary,
              used |-> acc.used \cup {bm[1]}]
        ELSE IF bm[1] >= 0 /\ RLeq(partial_threshold, bm[2])
        THEN [results |-> Append(acc.results,
                            hit(IF is_final THEN "mismatched" ELSE "provis_mismatched")),
              summary |-> IF is_final
                          THEN [acc.summary EXCEPT !.mismatched = @ + 1]
                          ELSE acc.summary,
              used |-> acc.used \cup {bm[1]}]
        ELSE [acc EXCEPT !.results = Append(@, SkippedResult(expected_word, position)),
                         !.summary = IF is_final THEN [@ EXCEPT !.skipped = @ + 1] ELSE @]

\* the classification of one expected word, given its best match bm
Classify(expected_word, position, spoken_words, is_final, acc, bm) ==
    LET hit(st) == [position |-> position, expected |-> expected_word,
                    spoken |-> <<spoken_words[bm[1] + 1]>>,
                    status |-> st, similarity_score |-> <<bm[2]>>]
    IN  IF bm[1] >= 0 /\ RLeq(similarity_threshold, bm[2])
        THEN [results |-> Append(acc.results,
                            hit(IF is_final THEN "matched" ELSE "provis_matched")),
              summary |-> IF is_final
                          THEN [acc.summary EXCEPT !.matched = @ + 1]
                          ELSE acc.summary,
              used |-> acc.used \cup {bm[1]}]
        ELSE IF bm[1] >= 0 /\ RLess(partial_threshold, bm[2])
        THEN [results |-> Append(acc.results,
                            hit(IF is_final THEN "mismatched" ELSE "provis_mismatched")),
              summary |-> IF is_final
                          THEN [acc.summary EXCEPT !.mismatched = @ + 1]
                          ELSE acc.summary,
              used |-> acc.used \cup {bm[1]}]
        ELSE [acc EXCEPT !.results = Append(@, SkippedResult(expected_word, position)),
                         !.summary = IF is_final THEN [@ EXCEPT !.skipped = @ + 1] ELSE @]

CompareStepCountingAlways(expected_word, position, spoken_words, is_final, acc) ==
    IF spoken_words = <<>>
    THEN [acc EXCEPT !.results = Append(@, SkippedResult(expected_word, position)),
                     !.summary = [@ EXCEPT !.skipped = @ + 1]]
    ELSE Classify(expected_word, position, spoken_words, is_final, acc,
                  BestMatch(expected_word, spoken_words, position, acc.used))

\* the body of the loop over expected_words; acc = [results, summary, used]
CompareStep(expected_word, position, spoken_words, is_final, acc) ==
    IF spoken_words = <<>>
    THEN [acc EXCEPT !.results = Append(@, SkippedResult(expected_word, position)),
                     !.summary = IF is_final THEN [@ EXCEPT !.skipped = @ + 1] ELSE @]
    ELSE Classify(expected_word, position, spoken_words, is_final, acc,
                  BestMatch(expected_word, spoken_words, position, acc.used))

RECURSIVE CompareLoop(_, _, _, _, _)
CompareLoop(expected_words, position, spoken_words, is_final, acc) ==
    IF position >= Len(expected_words) THEN acc
    ELSE CompareLoop(expected_words, position + 1, spoken_words, is_final,
                     CompareStep(expected_words[position + 1], position,
                                 spoken_words, is_final, acc))

\* what compare_transcript returns
Returned(acc) == [results |-> acc.results, summary |-> acc.summary]

compare_transcript(expected_words, spoken_transcript, is_final) ==
    IF expected_words = <<>> THEN [results |-> <<>>, summary |-> ZeroSummary(0)]
    ELSE Returned(
           CompareLoop(expected_words, 0,
               Split(normalize_for(~is_arabic(spoken_transcript), spoken_transcript)),
               is_final,
               [results |-> <<>>, summary |-> ZeroSummary(Len(expected_words)),
                used |-> {}]))

(***************************************************************************)
(* Bounds of the model.                                                    *)
(***************************************************************************)
MaxSessions  == 2     \* session ids a run may allocate
MaxInFlight  == 2     \* request handlers that may be suspended at the same time
NumAyat      == 3     \* ayat of the modelled surah (Surat.jumlahayat)
MaxObservers == 2     \* WebSocket connections
MaxSnapshots == 2     \* session snapshots written per session id
MaxExpected  == 3     \* expected words handed to one compare_transcript call
MaxSpoken    == 2     \* words of a spoken transcript
MaxIndex     == 11    \* largest surah id, ayah and word position of an index
MaxIndexLen  == 5     \* longest string handed to parse_position_index

(***************************************************************************)
(* Corpus provider (external, read-only): one surah.                       *)
(***************************************************************************)
W1 == <<AB, AS, AM>>
W2 == <<AL, AL>>
W3 == <<AM, AL>>
WX == <<AL, AB>>          \* scores between 0.3 and 0.7 against W2

AyahNumbers == 1..NumAyat

QuranAyat(ayah) ==
    [ayah |-> ayah,
     page |-> IF ayah <= 2 THEN 1 ELSE 2,
     juz  |-> 1,
     words_array |-> IF ayah = 1 THEN <<W1, W2>>
                     ELSE IF ayah = 2 THEN <<W3>> ELSE <<W2, W1>>]

get_ayat_any(ayah) == <<QuranAyat(ayah)>>

\* supabase_service.get_ayat: the ayah, or None (here <<>>) when there is no such row
get_ayat(ayah) == IF ayah \in AyahNumbers THEN <<QuranAyat(ayah)>> ELSE <<>>

\* supabase_service.get_ayat_by_page / get_ayat_by_juz: ayah numbers in ascending order
RECURSIVE AscendingFrom(_, _)
AscendingFrom(n, Keep) ==
    IF n > NumAyat THEN <<>>
    ELSE (IF n \in Keep THEN <<n>> ELSE <<>>) \o AscendingFrom(n + 1, Keep)

get_ayat_by_page(page) == AscendingFrom(1, {a \in AyahNumbers : QuranAyat(a).page = page})
get_ayat_by_juz(juz) == AscendingFrom(1, {a \in AyahNumbers : QuranAyat(a).juz = juz})

Modes == {"surah", "page", "juz"}

\* transcripts a client may send
Transcripts == { <<>>,
                 W1,
                 W1 \o <<SP>> \o W2,
                 W1 \o <<SP>> \o WX,
                 W3,
                 W2 \o <<SP>> \o W1 }

\* transcripts sent by overlapping requests
OverlapTranscripts == { W1, W1 \o <<SP>> \o W2, W3 }

\* positions a client may ask to move to
MovePositions == {-1, 0, 1}
MoveAyat == 1..(NumAyat + 1)

SessionIds == 1..MaxSessions
NoSuchSession == 0                     \* an id no Start ever returned
Procs == 1..MaxInFlight
IoOutcomes == {"ok", "fail"}           \* an external call returns, or raises

(***************************************************************************)
(* State.                                                                  *)
(***************************************************************************)
VARIABLES
    allocated,         \* session ids handed out so far (uuid4: never reused)
    procs,             \* request handlers: position in the code, locals, outcome
    \* LiveSessionService
    active_sessions,   \* cache: session id -> current_ayah, current_words, position, ...
    session_obj,       \* the LiveSession objects the cache entries refer to
    \* Supabase table live_sessions: session id -> rows inserted for it
    live_sessions,
    \* MemorySessionStore
    sessions,          \* _sessions
    websocket_connections,   \* _websocket_connections
    session_metadata,  \* ids having an entry in _session_metadata
    cleanup_tasks,     \* _delayed_cleanup tasks created and not yet run, per id
    sent,              \* messages delivered to WebSockets: <<ws, type, session id>>
    \* AlignmentService
    call,              \* the call of an AlignmentService method under way
    \* ConnectionManager of the /ws/live endpoint of LiveSessionService
    active_connections \* session id -> the WebSocket registered for it

vars == <<allocated, procs, active_sessions, session_obj,
          live_sessions, sessions, websocket_connections, session_metadata,
          cleanup_tasks, sent, call, active_connections>>

liveVars == <<active_sessions, session_obj>>
memVars == <<sessions, websocket_connections, session_metadata, cleanup_tasks, sent>>

(***************************************************************************)
(* Dictionaries (Python dict) as functions with a growing domain.          *)
(***************************************************************************)
Put(f, k, v) == [x \in DOMAIN f \cup {k} |-> IF x = k THEN v ELSE f[x]]
Del(f, k) == [x \in DOMAIN f \ {k} |-> f[x]]
EmptyDict == [x \in {} |-> 0]

\* seq[start:stop] for a list of length n, Python slice semantics
PySlice(seq, start, stop) ==
    LET n == Len(seq)
        clip(i) == IF i < 0 THEN Max2(n + i, 0) ELSE Min2(i, n)
        lo == clip(start)
        hi == clip(stop)
    IN  IF hi <= lo THEN <<>> ELSE [k \in 1..(hi - lo) |-> seq[lo + k]]

(***************************************************************************)
(* Request handlers.                                                       *)
(***************************************************************************)
NoLocals == [transcript |-> <<>>, is_final |-> FALSE, current_words |-> <<>>,
             current_position |-> 0, results |-> <<>>, next_ayah |-> 0,
             group |-> 0, new_ayah |-> 0, new_position |-> 0, pending |-> <<>>,
             websockets |-> <<>>, session |-> <<>>, previous_ayah |-> 0]

Idle == [pc |-> "idle", op |-> "none", sid |-> NoSuchSession, loc |-> NoLocals,
         outcome |-> "none"]

\* the handler has returned: what its caller got
Done(op, outcome) ==
    [pc |-> "done", op |-> op, sid |-> NoSuchSession, loc |-> NoLocals,
     outcome |-> outcome]

At(pc, op, sid, loc) == [pc |-> pc, op |-> op, sid |-> sid, loc |-> loc, outcome |-> "none"]

\* a handler slot that holds no suspended handler
Free(p) == procs[p].pc \in {"idle", "done"}

\* the services as constructed
ServicesInit ==
    /\ allocated = {}
    /\ procs = [p \in Procs |-> Idle]
    /\ active_sessions = EmptyDict
    /\ session_obj = EmptyDict
    /\ live_sessions = EmptyDict
    /\ sessions = EmptyDict
    /\ websocket_connections = EmptyDict
    /\ session_metadata = {}
    /\ cleanup_tasks = [s \in SessionIds |-> 0]
    /\ sent = {}
    /\ active_connections = EmptyDict

\* no AlignmentService method is being followed
NoCall == [fn |-> "none", pc |-> "none"]

Init ==
    /\ ServicesInit
    /\ call = NoCall

(***************************************************************************)
(* Supabase table live_sessions.                                           *)
(***************************************************************************)
\* POST live_sessions
DbInsert(db, sid, row) ==
    Put(db, sid, IF sid \in DOMAIN db THEN Append(db[sid], row) ELSE <<row>>)

\* PATCH live_sessions?session_id=eq.sid: every matching row; none is no error
DbPatch(db, sid, updates) ==
    IF sid \notin DOMAIN db THEN db
    ELSE [db EXCEPT ![sid] =
            [k \in 1..Len(@) |->
                [f \in DOMAIN @[k] |->
                    IF f \in DOMAIN updates THEN updates[f] ELSE @[k][f]]]]

\* get_live_session: result[0], or None (<<>>)
get_live_session(db, sid) ==
    IF sid \in DOMAIN db /\ db[sid] # <<>> THEN <<db[sid][1]>> ELSE <<>>

(***************************************************************************)
(* LiveSessionService                                                      *)
(***************************************************************************)
CountMatchedPlus(results) ==
    Cardinality({i \in 1..Len(results) : results[i].status \in {"matched", "mismatched"}})

\* sum(1 for r in results if r.status.value in ["matched"])
CountMatched(results) ==
    Cardinality({i \in 1..Len(results) : results[i].status = "matched"})

MatchedOnly(current_position, results) == CountMatched(results)

\* new_position = current_position + matched_count
NewPosition(current_position, results) == current_position + CountMatched(results)

\* current_words[current_position:current_position + 10]
Lookahead(current_words, current_position) ==
    PySlice(current_words, current_position, current_position + 10)

\* for result in results: result.position = current_position + result.position
AdjustPositions(results, current_position) ==
    [i \in 1..Len(results) |->
        [results[i] EXCEPT !.position = current_position + @]]

CacheEntry(ayah_data, position) ==
    [current_ayah |-> ayah_data,
     current_words |-> ayah_data.words_array,
     position |-> position,
     provisional_results |-> <<>>]

\* start_session: one step, since nothing shared is read or written before
\* the last await returns
LiveStartSession(p, sid, ayah, mode, io) ==
    /\ Free(p)
    /\ sid \notin allocated          \* str(uuid.uuid4())
    /\ LET ayah_data == get_ayat(ayah)
       IN  IF io = "fail"
           THEN /\ procs' = [procs EXCEPT ![p] = Done("start", "error")]
                /\ UNCHANGED <<allocated, active_sessions, session_obj, live_sessions>>
           ELSE IF ayah_data = <<>>
           THEN /\ procs' = [procs EXCEPT ![p] = Done("start", "not_found")]
                /\ UNCHANGED <<allocated, active_sessions, session_obj, live_sessions>>
           ELSE /\ allocated' = allocated \cup {sid}
                /\ live_sessions' = DbInsert(live_sessions, sid,
                        [ayah |-> ayah, position |-> 0, mode |-> mode, status |-> "active"])
                /\ session_obj' = Put(session_obj, sid,
                        [ayah |-> ayah, mode |-> mode, status |-> "active"])
                /\ active_sessions' = Put(active_sessions, sid, CacheEntry(ayah_data[1], 0))
                /\ procs' = [procs EXCEPT ![p] = Done("start", "ok")]
    /\ UNCHANGED memVars
    /\ UNCHANGED <<call, active_connections>>

StoreProvisionalAndAdvance(cache, sid, results) ==
    [cache EXCEPT ![sid].provisional_results = results,
                  ![sid].position = @ + Len(results)]

\* self.active_sessions[session_id]["provisional_results"] = results
StoreProvisional(cache, sid, results) ==
    [cache EXCEPT ![sid].provisional_results = results]

\* update_session once the results are computed: a final update suspends in
\* save_transcript_log, a provisional one stores the results and returns
UpdateStore(p, sid, is_final, cache, results) ==
    IF is_final
    THEN /\ procs' = [procs EXCEPT ![p] =
                At("save_transcript", "update", sid,
                   [NoLocals EXCEPT !.is_final = TRUE,
                                    !.current_words = cache[sid].current_words,
                                    !.current_position = cache[sid].position,
                                    !.results = results])]
         /\ active_sessions' = cache
    ELSE /\ procs' = [procs EXCEPT ![p] = Done("update", "ok")]
         /\ active_sessions' = StoreProvisional(cache, sid, results)

\* update_session from the moment it holds session_data: the window is
\* compared and the result positions are made absolute
UpdateBody(p, sid, transcript, is_final, cache) ==
    UpdateStore(p, sid, is_final, cache,
        AdjustPositions(
            compare_transcript(Lookahead(cache[sid].current_words, cache[sid].position),
                               transcript, is_final).results,
            cache[sid].position))

\* move_ayah_session from session_data to the await of get_ayat
MoveBody(p, sid, new_ayah, new_position, cache) ==
    /\ procs' = [procs EXCEPT ![p] =
            At("move_get_ayat", "move", sid,
               [NoLocals EXCEPT !.new_ayah = new_ayah, !.new_position = new_position])]
    /\ active_sessions' = cache

StatusBodyResetting(p, sid, cache) ==
    /\ procs' = [procs EXCEPT ![p] = Done("status", "ok")]
    /\ active_sessions' = [cache EXCEPT ![sid].position = 0]

\* get_session_status from session_data to its return
StatusBody(p, sid, cache) ==
    /\ procs' = [procs EXCEPT ![p] = Done("status", "ok")]
    /\ active_sessions' = cache

\* _get_session_data, cache hit: the caller goes on without suspending;
\* cache miss: the handler suspends in get_live_session
LiveBegin(p, op, sid, transcript, is_final, new_ayah, new_position) ==
    /\ Free(p)
    /\ sid \in allocated \cup {NoSuchSession}
    /\ IF sid \in DOMAIN active_sessions
       THEN CASE op = "update" -> UpdateBody(p, sid, transcript, is_final, active_sessions)
              [] op = "move"   -> MoveBody(p, sid, new_ayah, new_position, active_sessions)
              [] op = "status" -> StatusBody(p, sid, active_sessions)
       ELSE /\ procs' = [procs EXCEPT ![p] =
                   At("load_session", op, sid,
                      [NoLocals EXCEPT !.transcript = transcript, !.is_final = is_final,
                                       !.new_ayah = new_ayah,
                                       !.new_position = new_position])]
            /\ UNCHANGED active_sessions

LiveUpdateSession(p, sid, transcript, is_final) ==
    /\ LiveBegin(p, "update", sid, transcript, is_final, 0, 0)
    /\ UNCHANGED <<allocated, session_obj, live_sessions>>
    /\ UNCHANGED memVars
    /\ UNCHANGED <<call, active_connections>>

LiveMoveAyahSession(p, sid, new_ayah, new_position) ==
    /\ LiveBegin(p, "move", sid, <<>>, FALSE, new_ayah, new_position)
    /\ UNCHANGED <<allocated, session_obj, live_sessions>>
    /\ UNCHANGED memVars
    /\ UNCHANGED <<call, active_connections>>

LiveGetSessionStatus(p, sid) ==
    /\ LiveBegin(p, "status", sid, <<>>, FALSE, 0, 0)
    /\ UNCHANGED <<allocated, session_obj, live_sessions>>
    /\ UNCHANGED memVars
    /\ UNCHANGED <<call, active_connections>>

\* _get_session_data resumes with the row (and the ayah) it asked for
LiveLoadSession(p, io) ==
    /\ procs[p].pc = "load_session"
    /\ LET me == procs[p]
           sid == me.sid
           session == get_live_session(live_sessions, sid)
           current_ayah == IF session = <<>> THEN <<>> ELSE get_ayat(session[1].ayah)
       IN  IF io = "fail"
           THEN /\ procs' = [procs EXCEPT ![p] = Done(me.op, "error")]
                /\ UNCHANGED <<active_sessions, session_obj>>
           ELSE IF session = <<>> \/ session[1].status # "active" \/ current_ayah = <<>>
           THEN /\ procs' = [procs EXCEPT ![p] = Done(me.op, "not_found")]
                /\ UNCHANGED <<active_sessions, session_obj>>
           ELSE LET restored == Put(active_sessions, sid,
                                    CacheEntry(current_ayah[1], session[1].position))
                IN  /\ session_obj' = Put(session_obj, sid,
                            [ayah |-> session[1].ayah, mode |-> session[1].mode,
                             status |-> session[1].status])
                    /\ CASE me.op = "update" ->
                               UpdateBody(p, sid, me.loc.transcript, me.loc.is_final, restored)
                          [] me.op = "move" ->
                               MoveBody(p, sid, me.loc.new_ayah, me.loc.new_position, restored)
                          [] me.op = "status" -> StatusBody(p, sid, restored)
    /\ UNCHANGED <<allocated, live_sessions>>
    /\ UNCHANGED memVars
    /\ UNCHANGED <<call, active_connections>>

\* end_session: supabase_service.end_live_session, then the cache entry is dropped
EndEffects(sid) ==
    /\ live_sessions' = DbPatch(live_sessions, sid, [status |-> "ended"])
    /\ active_sessions' = IF sid \in DOMAIN active_sessions
                          THEN Del(active_sessions, sid) ELSE active_sessions

\* the ayah _advance_to_next_ayah moves to, or 0 when the session is to end
Successor(session, next_ayah, ayah_list) ==
    IF session.mode = "surah"
    THEN (IF next_ayah <= NumAyat THEN next_ayah ELSE 0)
    ELSE LET at == {k \in 1..Len(ayah_list) : ayah_list[k] = session.ayah}
         IN  IF at = {} THEN 0
             ELSE LET k == CHOOSE x \in at : TRUE
                  IN  IF k < Len(ayah_list) THEN ayah_list[k + 1] ELSE 0

\* update_session resumes after save_transcript_log and update_live_session,
\* writes the cache and, when the ayah is complete, enters _advance_to_next_ayah
\* up to its first await
LiveUpdateCommit(p, io) ==
    /\ procs[p].pc = "save_transcript"
    /\ LET me == procs[p]
           sid == me.sid
           new_position == NewPosition(me.loc.current_position, me.loc.results)
       IN  IF io = "fail"
           THEN /\ procs' = [procs EXCEPT ![p] = Done("update", "error")]
                /\ UNCHANGED <<active_sessions, live_sessions>>
           ELSE /\ live_sessions' = DbPatch(live_sessions, sid, [position |-> new_position])
                /\ IF sid \notin DOMAIN active_sessions
                   THEN \* KeyError
                        /\ procs' = [procs EXCEPT ![p] = Done("update", "error")]
                        /\ UNCHANGED active_sessions
                   ELSE /\ active_sessions' =
                               [active_sessions EXCEPT ![sid].position = new_position,
                                                       ![sid].provisional_results = <<>>]
                        /\ IF new_position >= Len(me.loc.current_words)
                           THEN LET session == session_obj[sid]
                                    current == active_sessions[sid].current_ayah
                                IN  procs' = [procs EXCEPT ![p] =
                                      At("advance", "update", sid,
                                         [NoLocals EXCEPT
                                            !.next_ayah = session.ayah + 1,
                                            !.group = IF session.mode = "page"
                                                      THEN current.page ELSE current.juz])]
                           ELSE procs' = [procs EXCEPT ![p] = Done("update", "ok")]
    /\ UNCHANGED <<allocated, session_obj>>
    /\ UNCHANGED memVars
    /\ UNCHANGED <<call, active_connections>>

\* _advance_to_next_ayah resumes after its lookups: _update_session_ayah or
\* end_session, every exception swallowed; then update_session returns
LiveAdvance(p, io) ==
    /\ procs[p].pc = "advance"
    /\ LET me == procs[p]
           sid == me.sid
           session == session_obj[sid]
           ayah_list == IF session.mode = "page" THEN get_ayat_by_page(me.loc.group)
                        ELSE get_ayat_by_juz(me.loc.group)
           target == Successor(session, me.loc.next_ayah, ayah_list)
       IN  /\ procs' = [procs EXCEPT ![p] = Done("update", "ok")]
           /\ IF io = "fail"
              THEN UNCHANGED <<active_sessions, live_sessions>>
              ELSE IF target = 0
              THEN EndEffects(sid)
              ELSE \* _update_session_ayah
                   /\ live_sessions' = DbPatch(live_sessions, sid,
                                               [ayah |-> target, position |-> 0])
                   /\ active_sessions' =
                         IF sid \in DOMAIN active_sessions
                         THEN [active_sessions EXCEPT ![sid] =
                                  CacheEntry(get_ayat(target)[1], 0)]
                         ELSE active_sessions      \* KeyError, swallowed
    /\ UNCHANGED <<allocated, session_obj>>
    /\ UNCHANGED memVars
    /\ UNCHANGED <<call, active_connections>>

\* the position move_ayah_session stores
ClampPosition(new_position, new_words) ==
    IF new_position >= Len(new_words) THEN 0 ELSE new_position

\* move_ayah_session resumes after get_ayat and update_live_session
LiveMoveCommit(p, io) ==
    /\ procs[p].pc = "move_get_ayat"
    /\ LET me == procs[p]
           sid == me.sid
           new_ayah_data == get_ayat(me.loc.new_ayah)
       IN  IF io = "fail"
           THEN /\ procs' = [procs EXCEPT ![p] = Done("move", "error")]
                /\ UNCHANGED <<active_sessions, session_obj, live_sessions>>
           ELSE IF new_ayah_data = <<>>
           THEN /\ procs' = [procs EXCEPT ![p] = Done("move", "not_found")]
                /\ UNCHANGED <<active_sessions, session_obj, live_sessions>>
           ELSE LET new_words == new_ayah_data[1].words_array
                    new_position == ClampPosition(me.loc.new_position, new_words)
                IN  /\ live_sessions' = DbPatch(live_sessions, sid,
                            [ayah |-> me.loc.new_ayah, position |-> new_position])
                    /\ IF sid \notin DOMAIN active_sessions
                       THEN \* KeyError
                            /\ procs' = [procs EXCEPT ![p] = Done("move", "error")]
                            /\ UNCHANGED <<active_sessions, session_obj>>
                       ELSE /\ active_sessions' = [active_sessions EXCEPT ![sid] =
                                    CacheEntry(new_ayah_data[1], new_position)]
                            /\ session_obj' = [session_obj EXCEPT
                                                 ![sid].ayah = me.loc.new_ayah]
                            /\ procs' = [procs EXCEPT ![p] = Done("move", "ok")]
    /\ UNCHANGED allocated
    /\ UNCHANGED memVars
    /\ UNCHANGED <<call, active_connections>>

\* end_session: one step, since it reads nothing before its only await
LiveEndSession(p, sid, io) ==
    /\ Free(p)
    /\ sid \in allocated \cup {NoSuchSession}
    /\ IF io = "fail"
       THEN /\ procs' = [procs EXCEPT ![p] = Done("end", "error")]
            /\ UNCHANGED <<active_sessions, live_sessions>>
       ELSE /\ procs' = [procs EXCEPT ![p] = Done("end", "ok")]
            /\ EndEffects(sid)
    /\ UNCHANGED <<allocated, session_obj>>
    /\ UNCHANGED memVars
    /\ UNCHANGED <<call, active_connections>>

\* the server process is restarted: its memory is lost, the database is not
LiveRestart ==
    /\ active_sessions # EmptyDict
    /\ active_sessions' = EmptyDict
    /\ session_obj' = EmptyDict
    /\ procs' = [p \in Procs |-> Idle]
    /\ active_connections' = EmptyDict
    /\ UNCHANGED <<allocated, live_sessions>>
    /\ UNCHANGED memVars
    /\ UNCHANGED call

\* get_session_status of LiveSessionService finds the session: it is cached.
\* (A session that is not cached but has an active row would be reloaded;
\* the routes below are followed for sessions that need no reload.)
NeedsReload(sid) ==
    /\ sid \notin DOMAIN active_sessions
    /\ get_live_session(live_sessions, sid) # <<>>
    /\ get_live_session(live_sessions, sid)[1].status = "active"

\* PATCH /live/move of routes/transcript.py, up to the await of
\* update_live_session: the session must have a status
move_to_ayah(p, sid, ayah, position) ==
    /\ Free(p)
    /\ sid \in allocated \cup {NoSuchSession}
    /\ ~NeedsReload(sid)
    /\ procs' = [procs EXCEPT ![p] =
          IF sid \notin DOMAIN active_sessions THEN Done("rest_move", "not_found")
          ELSE At("rest_move_update", "rest_move", sid,
                  [NoLocals EXCEPT !.new_ayah = ayah, !.new_position = position])]
    /\ UNCHANGED <<allocated, live_sessions>>
    /\ UNCHANGED liveVars
    /\ UNCHANGED memVars
    /\ UNCHANGED <<call, active_connections>>

\* move_to_ayah resumes from update_live_session: the row is patched and the
\* response is built from the request; the cache is not touched
MoveToAyahCommit(p, io) ==
    /\ procs[p].pc = "rest_move_update"
    /\ IF io = "fail"
       THEN /\ procs' = [procs EXCEPT ![p] = Done("rest_move", "error")]
            /\ UNCHANGED live_sessions
       ELSE /\ live_sessions' = DbPatch(live_sessions, procs[p].sid,
                    [ayah |-> procs[p].loc.new_ayah, position |-> procs[p].loc.new_position])
            /\ procs' = [procs EXCEPT ![p] = Done("rest_move", "ok")]
    /\ UNCHANGED allocated
    /\ UNCHANGED liveVars
    /\ UNCHANGED memVars
    /\ UNCHANGED <<call, active_connections>>

\* ConnectionManager.disconnect
disconnect(conns, sid) == IF sid \in DOMAIN conns THEN Del(conns, sid) ELSE conns

\* ConnectionManager.connect: self.active_connections[session_id] = websocket
connect(conns, sid, websocket) == Put(conns, sid, websocket)

\* websocket_live_transcript of routes/live_ws.py from the connection to its
\* receive loop: the WebSocket is registered, then the session is verified;
\* without a status the error is sent and the finally clause disconnects
WebsocketLiveTranscript(p, websocket, sid, io) ==
    /\ Free(p)
    /\ sid \in allocated \cup {NoSuchSession}
    /\ ~NeedsReload(sid)
    /\ \A q \in Procs : procs[q].pc = "ws_receive" => Head(procs[q].loc.websockets) # websocket
    /\ IF sid \in DOMAIN active_sessions /\ io = "ok"
       THEN /\ active_connections' = connect(active_connections, sid, websocket)
            /\ sent' = sent \cup {<<websocket, "session_status", sid>>}
            /\ procs' = [procs EXCEPT ![p] =
                  At("ws_receive", "ws", sid, [NoLocals EXCEPT !.websockets = <<websocket>>])]
       ELSE /\ active_connections' =
                  disconnect(connect(active_connections, sid, websocket), sid)
            /\ sent' = IF io = "ok" THEN sent \cup {<<websocket, "error", sid>>} ELSE sent
            /\ procs' = [procs EXCEPT ![p] = Done("ws", "closed")]
    /\ UNCHANGED <<allocated, live_sessions, sessions, websocket_connections,
                   session_metadata, cleanup_tasks>>
    /\ UNCHANGED liveVars
    /\ UNCHANGED call

\* the client of endpoint p goes away: WebSocketDisconnect leaves the loop and
\* the finally clause calls connection_manager.disconnect(session_id)
WebsocketLiveDisconnect(p) ==
    /\ procs[p].pc = "ws_receive"
    /\ active_connections' = disconnect(active_connections, procs[p].sid)
    /\ procs' = [procs EXCEPT ![p] = Done("ws", "closed")]
    /\ UNCHANGED <<allocated, live_sessions>>
    /\ UNCHANGED liveVars
    /\ UNCHANGED memVars
    /\ UNCHANGED call

\* the endpoint whose WebSocket is `websocket` learns that a send on it raised
MarkSendFailed(ps, websocket) ==
    [q \in Procs |->
        IF ps[q].pc = "ws_receive" /\ Head(ps[q].loc.websockets) = websocket
        THEN [ps[q] EXCEPT !.loc.pending = <<"send_failed">>] ELSE ps[q]]

\* ConnectionManager.broadcast_to_session, called by endpoint p at the end of
\* handle_transcript_message: send_personal_message to the one registered
\* WebSocket; a send that raises disconnects the session id
broadcast_to_session(p, io) ==
    /\ procs[p].pc = "ws_receive"
    /\ procs[p].sid \in DOMAIN active_connections
    /\ LET sid == procs[p].sid
           websocket == active_connections[sid]
       IN  IF io = "ok"
           THEN /\ sent' = sent \cup {<<websocket, "transcript_result", sid>>}
                /\ UNCHANGED <<active_connections, procs>>
           ELSE /\ active_connections' = disconnect(active_connections, sid)
                /\ procs' = MarkSendFailed(procs, websocket)
                /\ UNCHANGED sent
    /\ UNCHANGED <<allocated, live_sessions, sessions, websocket_connections,
                   session_metadata, cleanup_tasks>>
    /\ UNCHANGED liveVars
    /\ UNCHANGED call

\* Start, ApplyTranscript and End of LiveSessionService, open to the handler
\* slots P, on the session ids S, with the transcripts T
LiveCore(P, S, T) ==
    \/ \E p \in P, sid \in S, ayah \in MoveAyat, mode \in Modes, io \in IoOutcomes :
           LiveStartSession(p, sid, ayah, mode, io)
    \/ \E p \in P, sid \in S \cup {NoSuchSession}, t \in T, f \in BOOLEAN :
           LiveUpdateSession(p, sid, t, f)
    \/ \E p \in P, sid \in S \cup {NoSuchSession}, io \in IoOutcomes :
           LiveEndSession(p, sid, io)
    \/ \E p \in Procs, io \in IoOutcomes : LiveUpdateCommit(p, io)
    \/ \E p \in Procs, io \in IoOutcomes : LiveAdvance(p, io)

\* MoveTo, Status, and the reload of a session after a restart
LiveOther(P, S) ==
    \/ \E p \in P, sid \in S \cup {NoSuchSession}, a \in MoveAyat, pos \in MovePositions :
           LiveMoveAyahSession(p, sid, a, pos)
    \/ \E p \in P, sid \in S \cup {NoSuchSession} : LiveGetSessionStatus(p, sid)
    \/ \E p \in Procs, io \in IoOutcomes : LiveLoadSession(p, io)
    \/ \E p \in Procs, io \in IoOutcomes : LiveMoveCommit(p, io)
    \/ LiveRestart

\* one request at a time, one session
LiveSeqNext == LiveCore({1}, {1}, Transcripts) \/ LiveOther({1}, {1})
LiveSeqSpec == Init /\ [][LiveSeqNext]_vars

\* overlapping ApplyTranscript requests on one session
LiveNext == LiveCore(Procs, {1}, OverlapTranscripts)
LiveSpec == Init /\ [][LiveNext]_vars

\* the routes of the database-backed service, one request at a time, one
\* session: Start, PATCH /live/move, Status and ApplyTranscript
RestMoveNext ==
    \/ \E ayah \in MoveAyat, io \in IoOutcomes : LiveStartSession(1, 1, ayah, "surah", io)
    \/ \E sid \in {1, NoSuchSession}, a \in MoveAyat, pos \in MovePositions :
           move_to_ayah(1, sid, a, pos)
    \/ \E io \in IoOutcomes : MoveToAyahCommit(1, io)
    \/ \E sid \in {1, NoSuchSession} : LiveGetSessionStatus(1, sid)
    \/ \E sid \in {1, NoSuchSession}, t \in OverlapTranscripts, f \in BOOLEAN :
           LiveUpdateSession(1, sid, t, f)
    \/ \E io \in IoOutcomes : LiveLoadSession(1, io)
    \/ \E io \in IoOutcomes : LiveUpdateCommit(1, io)
    \/ \E io \in IoOutcomes : LiveAdvance(1, io)
RestMoveSpec == Init /\ [][RestMoveNext]_vars

\* a client that recites what is left of the current ayah: one final
\* transcript holding the words from the cached position to the end
RemainingWords(sid) ==
    JoinWords(Lookahead(active_sessions[sid].current_words,
                        active_sessions[sid].position))

Recite(p, sid) ==
    /\ sid \in DOMAIN active_sessions
    /\ LiveUpdateSession(p, sid, RemainingWords(sid), TRUE)

\* every session has its own reciting client, which may send its next
\* transcript whenever its session is active; every provider call succeeds,
\* and the event loop resumes a handler whose await has returned
Reciters == Procs \cap SessionIds
RecitalNext ==
    \/ \E sid \in Reciters, ayah \in AyahNumbers, mode \in Modes :
           LiveStartSession(sid, sid, ayah, mode, "ok")
    \/ \E sid \in Reciters : Recite(sid, sid)
    \/ \E p \in Reciters : LiveUpdateCommit(p, "ok")
    \/ \E p \in Reciters : LiveAdvance(p, "ok")
RecitalFairness ==
    \A p \in Reciters :
        WF_vars(LiveUpdateCommit(p, "ok") \/ LiveAdvance(p, "ok"))
RecitalSpec == Init /\ [][RecitalNext]_vars /\ RecitalFairness

(***************************************************************************)
(* MemorySessionStore and MemoryLiveSessionService                         *)
(***************************************************************************)
Observers == 1..MaxObservers

\* the elements of a Python list
Elems(list) == {list[i] : i \in 1..Len(list)}

\* list.remove(x): the list without its first x
RECURSIVE ListRemove(_, _)
ListRemove(list, x) ==
    IF list = <<>> THEN <<>>
    ELSE IF Head(list) = x THEN Tail(list)
    ELSE <<Head(list)>> \o ListRemove(Tail(list), x)

\* MemorySessionStore.get_websockets
get_websockets(sid) ==
    IF sid \in DOMAIN websocket_connections THEN websocket_connections[sid] ELSE <<>>

MemorySessionMarked(ayah, mode) ==
    [ayah |-> ayah, position |-> 0, mode |-> mode, status |-> "active",
     is_persisted |-> TRUE]

\* MemorySessionStore.create_session: the stored dict
MemorySession(ayah, mode) ==
    [ayah |-> ayah, position |-> 0, mode |-> mode, status |-> "active",
     is_persisted |-> FALSE]

MarkNothing(store, sid) == store

\* MemorySessionStore.mark_persisted
mark_persisted(store, sid) ==
    IF sid \in DOMAIN store THEN [store EXCEPT ![sid].is_persisted = TRUE] ELSE store

\* MemorySessionStore.remove_websocket on the dict of lists: a socket that is
\* not in the list is the ValueError the method passes over
remove_websocket(conns, sid, ws) ==
    IF sid \in DOMAIN conns THEN [conns EXCEPT ![sid] = ListRemove(@, ws)] ELSE conns

\* MemoryLiveSessionService.start_session: one step, the store is written
\* after the only suspending await
MemStartSession(p, sid, ayah, mode, io) ==
    /\ Free(p)
    /\ sid \notin allocated          \* str(uuid.uuid4())
    /\ IF io = "fail"
       THEN /\ procs' = [procs EXCEPT ![p] = Done("start", "error")]
            /\ UNCHANGED <<allocated, sessions, websocket_connections, session_metadata>>
       ELSE IF get_ayat(ayah) = <<>>
       THEN /\ procs' = [procs EXCEPT ![p] = Done("start", "not_found")]
            /\ UNCHANGED <<allocated, sessions, websocket_connections, session_metadata>>
       ELSE /\ allocated' = allocated \cup {sid}
            /\ sessions' = Put(sessions, sid, MemorySession(ayah, mode))
            /\ websocket_connections' = Put(websocket_connections, sid, <<>>)
            /\ session_metadata' = session_metadata \cup {sid}
            /\ procs' = [procs EXCEPT ![p] = Done("start", "ok")]
    /\ UNCHANGED <<live_sessions, cleanup_tasks, sent>>
    /\ UNCHANGED liveVars
    /\ UNCHANGED <<call, active_connections>>

\* MemorySessionStore.get_session: the dict the store holds
get_session(store, sid) == store[sid]

\* session["ayah"] read by a handler that got session from get_session: the
\* handler holds the stored dict itself, not a copy, so it reads what the
\* store holds now
HeldAyah(store, sid) == get_session(store, sid).ayah

\* move_ayah up to the await of get_ayat; loc.session keeps the value
\* get_session gave at line 226, as it was then
MemMoveAyah(p, sid, new_ayah, new_position) ==
    /\ Free(p)
    /\ sid \in allocated \cup {NoSuchSession}
    /\ IF sid \notin DOMAIN sessions
       THEN procs' = [procs EXCEPT ![p] = Done("move", "not_found")]
       ELSE procs' = [procs EXCEPT ![p] =
               At("mem_move_get_ayat", "move", sid,
                  [NoLocals EXCEPT !.new_ayah = new_ayah, !.new_position = new_position,
                                   !.session = <<get_session(sessions, sid)>>])]
    /\ UNCHANGED <<allocated, live_sessions>>
    /\ UNCHANGED liveVars
    /\ UNCHANGED memVars
    /\ UNCHANGED <<call, active_connections>>

\* move_ayah resumes from get_ayat: memory_store.move_ayah, then
\* _broadcast_ayah_move takes its copy of the socket list and awaits the first
\* send; with no socket connected the handler returns at once
MemMoveCommit(p, io) ==
    /\ procs[p].pc = "mem_move_get_ayat"
    /\ LET me == procs[p]
           sid == me.sid
       IN  IF io = "fail"
           THEN /\ procs' = [procs EXCEPT ![p] = Done("move", "error")]
                /\ UNCHANGED sessions
           ELSE IF get_ayat(me.loc.new_ayah) = <<>>
           THEN /\ procs' = [procs EXCEPT ![p] = Done("move", "not_found")]
                /\ UNCHANGED sessions
           ELSE IF sid \notin DOMAIN sessions
           THEN /\ procs' = [procs EXCEPT ![p] = Done("move", "error")]
                /\ UNCHANGED sessions
           ELSE /\ sessions' = [sessions EXCEPT ![sid].ayah = me.loc.new_ayah,
                                                ![sid].position = me.loc.new_position]
                /\ procs' = [procs EXCEPT ![p] =
                      IF get_websockets(sid) = <<>> THEN Done("move", "ok")
                      ELSE At("mem_move_send", "move", sid,
                              [me.loc EXCEPT !.websockets = get_websockets(sid),
                                             !.previous_ayah = HeldAyah(sessions', sid)])]
    /\ UNCHANGED <<allocated, live_sessions, websocket_connections, session_metadata,
                   cleanup_tasks, sent>>
    /\ UNCHANGED liveVars
    /\ UNCHANGED <<call, active_connections>>

AfterSendAborting(me, io) ==
    IF io = "fail" THEN Done(me.op, "error")
    ELSE IF Tail(me.loc.websockets) = <<>> THEN Done(me.op, "ok")
    ELSE [me EXCEPT !.loc.websockets = Tail(@)]

\* the handler after one pass of the send loop (try: await send_json, except
\* Exception: log): the next socket of the copy, or past the loop, whatever
\* the send did
AfterSend(me, io) ==
    IF Tail(me.loc.websockets) = <<>> THEN Done(me.op, "ok")
    ELSE [me EXCEPT !.loc.websockets = Tail(@)]

\* _broadcast_ayah_move resumes from websocket.send_json: a send that raised
\* drops the socket from the session's list; after the last socket move_ayah
\* returns its response
MemMoveSend(p, io) ==
    /\ procs[p].pc = "mem_move_send"
    /\ LET me == procs[p]
           sid == me.sid
           websocket == Head(me.loc.websockets)
       IN  /\ IF io = "ok"
              THEN /\ sent' = sent \cup {<<websocket, "ayah_moved", sid>>}
                   /\ UNCHANGED websocket_connections
              ELSE /\ websocket_connections' =
                         remove_websocket(websocket_connections, sid, websocket)
                   /\ UNCHANGED sent
           /\ procs' = [procs EXCEPT ![p] = AfterSend(me, io)]
    /\ UNCHANGED <<allocated, live_sessions, sessions, session_metadata, cleanup_tasks>>
    /\ UNCHANGED liveVars
    /\ UNCHANGED <<call, active_connections>>

\* get_session_status: the stored dict is read after the await of get_ayat
MemGetSessionStatus(p, sid, io) ==
    /\ Free(p)
    /\ sid \in allocated \cup {NoSuchSession}
    /\ procs' = [procs EXCEPT ![p] =
          IF sid \notin DOMAIN sessions THEN Done("status", "not_found")
          ELSE IF io = "fail" THEN Done("status", "error")
          ELSE IF get_ayat(sessions[sid].ayah) = <<>> THEN Done("status", "not_found")
          ELSE Done("status", "ok")]
    /\ UNCHANGED <<allocated, live_sessions>>
    /\ UNCHANGED liveVars
    /\ UNCHANGED memVars
    /\ UNCHANGED <<call, active_connections>>

\* handle_transcript_message of the /ws/live endpoint, up to the await of the
\* send of its answer: the status is read, the window is compared and the
\* result positions are made absolute; nothing is written to the store
HandleTranscriptMessage(p, sid, websocket, transcript, is_final, io) ==
    /\ Free(p)
    /\ sid \in allocated \cup {NoSuchSession}
    /\ procs' = [procs EXCEPT ![p] =
          IF transcript = <<>> THEN Done("transcript", "ignored")     \* if not transcript
          ELSE IF \/ io = "fail"
                  \/ sid \notin DOMAIN sessions
                  \/ get_ayat(sessions[sid].ayah) = <<>>
          THEN At("transcript_send", "transcript", sid,
                  [NoLocals EXCEPT !.websockets = <<websocket>>, !.pending = <<"error">>])
          ELSE LET words_array == get_ayat(sessions[sid].ayah)[1].words_array
                   current_position == sessions[sid].position
               IN  At("transcript_send", "transcript", sid,
                      [NoLocals EXCEPT
                         !.websockets = <<websocket>>,
                         !.pending = <<"transcript_result">>,
                         !.transcript = transcript,
                         !.is_final = is_final,
                         !.current_words = words_array,
                         !.current_position = current_position,
                         !.results = AdjustPositions(
                             compare_transcript(Lookahead(words_array, current_position),
                                                transcript, is_final).results,
                             current_position)])]
    /\ UNCHANGED <<allocated, live_sessions>>
    /\ UNCHANGED liveVars
    /\ UNCHANGED memVars
    /\ UNCHANGED <<call, active_connections>>

\* handle_transcript_message resumes from websocket.send_json: the answer is
\* with the client that sent the transcript, or the send raised
HandleTranscriptSend(p, io) ==
    /\ procs[p].pc = "transcript_send"
    /\ LET me == procs[p]
           type == me.loc.pending[1]
       IN  IF io = "ok"
           THEN /\ sent' = sent \cup {<<Head(me.loc.websockets), type, me.sid>>}
                /\ procs' = [procs EXCEPT ![p] =
                      Done("transcript", IF type = "error" THEN "error" ELSE "ok")]
           ELSE /\ procs' = [procs EXCEPT ![p] = Done("transcript", "error")]
                /\ UNCHANGED sent
    /\ UNCHANGED <<allocated, live_sessions, sessions, websocket_connections,
                   session_metadata, cleanup_tasks>>
    /\ UNCHANGED liveVars
    /\ UNCHANGED <<call, active_connections>>

\* snapshots written or being written for sid
SnapshotsBegun(sid) ==
    (IF sid \in DOMAIN live_sessions THEN Len(live_sessions[sid]) ELSE 0)
    + Cardinality({q \in Procs : procs[q].pc = "mem_persist" /\ procs[q].sid = sid})

\* end_session up to the await of create_live_session: the LiveSession
\* snapshot is built from the stored dict
MemEndSession(p, sid) ==
    /\ Free(p)
    /\ sid \in allocated \cup {NoSuchSession}
    /\ SnapshotsBegun(sid) < MaxSnapshots
    /\ IF sid \notin DOMAIN sessions
       THEN procs' = [procs EXCEPT ![p] = Done("end", "not_found")]
       ELSE procs' = [procs EXCEPT ![p] =
               At("mem_persist", "end", sid,
                  [NoLocals EXCEPT !.pending =
                      <<[ayah |-> sessions[sid].ayah, position |-> sessions[sid].position,
                         mode |-> sessions[sid].mode, status |-> "ended"]>>])]
    /\ UNCHANGED <<allocated, live_sessions>>
    /\ UNCHANGED liveVars
    /\ UNCHANGED memVars
    /\ UNCHANGED <<call, active_connections>>

PersistFailedButMarked(p) ==
    /\ procs' = [procs EXCEPT ![p] = Done("end", "error")]
    /\ sessions' = mark_persisted(sessions, procs[p].sid)
    /\ UNCHANGED <<live_sessions, sent, cleanup_tasks>>

\* end_session when create_live_session raises: logged and raised again
PersistFailed(p) ==
    /\ procs' = [procs EXCEPT ![p] = Done("end", "error")]
    /\ UNCHANGED <<live_sessions, sessions, sent, cleanup_tasks>>

\* end_session resumes from create_live_session: mark_persisted, then
\* _broadcast_session_ended takes its copy of the socket list and awaits the
\* first send; with no socket connected the handler goes on to
\* create_task(_delayed_cleanup) and returns
MemEndPersist(p, io) ==
    /\ procs[p].pc = "mem_persist"
    /\ LET me == procs[p]
           sid == me.sid
       IN  IF io = "fail"
           THEN PersistFailed(p)
           ELSE /\ live_sessions' = DbInsert(live_sessions, sid, me.loc.pending[1])
                /\ sessions' = mark_persisted(sessions, sid)
                /\ IF get_websockets(sid) = <<>>
                   THEN /\ cleanup_tasks' = [cleanup_tasks EXCEPT ![sid] = @ + 1]
                        /\ procs' = [procs EXCEPT ![p] = Done("end", "ok")]
                   ELSE /\ UNCHANGED cleanup_tasks
                        /\ procs' = [procs EXCEPT ![p] =
                              At("mem_end_send", "end", sid,
                                 [NoLocals EXCEPT !.websockets = get_websockets(sid)])]
                /\ UNCHANGED sent
    /\ UNCHANGED <<allocated, websocket_connections, session_metadata>>
    /\ UNCHANGED liveVars
    /\ UNCHANGED <<call, active_connections>>

\* _broadcast_session_ended resumes from websocket.send_json: a send that
\* raised is logged; after the last socket end_session creates the
\* _delayed_cleanup task and returns its response
MemEndSend(p, io) ==
    /\ procs[p].pc = "mem_end_send"
    /\ LET me == procs[p]
           sid == me.sid
           websocket == Head(me.loc.websockets)
       IN  /\ sent' = IF io = "ok" THEN sent \cup {<<websocket, "session_ended", sid>>}
                      ELSE sent
           /\ procs' = [procs EXCEPT ![p] = AfterSend(me, io)]
           /\ cleanup_tasks' = IF Tail(me.loc.websockets) = <<>>
                               THEN [cleanup_tasks EXCEPT ![sid] = @ + 1]
                               ELSE cleanup_tasks
    /\ UNCHANGED <<allocated, live_sessions, sessions, websocket_connections,
                   session_metadata>>
    /\ UNCHANGED liveVars
    /\ UNCHANGED <<call, active_connections>>

\* a dict without the keys ids
Without(f, ids) == [x \in DOMAIN f \ ids |-> f[x]]

\* MemorySessionStore.delete_session, for each id of ids
delete_sessions(ids) ==
    /\ sessions' = Without(sessions, ids)
    /\ websocket_connections' = Without(websocket_connections, ids)
    /\ session_metadata' = session_metadata \ ids

delete_session_clearing(sid) == delete_sessions(DOMAIN sessions)

\* MemorySessionStore.delete_session
delete_session(sid) == delete_sessions({sid})

\* _delayed_cleanup wakes up: memory_store.delete_session
DelayedCleanup(sid) ==
    /\ cleanup_tasks[sid] > 0
    /\ cleanup_tasks' = [cleanup_tasks EXCEPT ![sid] = @ - 1]
    /\ delete_session(sid)
    /\ UNCHANGED <<allocated, procs, live_sessions, sent>>
    /\ UNCHANGED liveVars
    /\ UNCHANGED <<call, active_connections>>

EverySession(all_sessions) == DOMAIN all_sessions

\* the sessions a cleanup pass removes: session.get("is_persisted", False)
Persisted(all_sessions) ==
    {sid \in DOMAIN all_sessions : all_sessions[sid].is_persisted}

\* POST /maintenance/cleanup: every persisted session of get_all_sessions()
\* is deleted; the handler does not suspend
MaintenanceCleanup ==
    /\ Persisted(sessions) # {}
    /\ delete_sessions(Persisted(sessions))
    /\ UNCHANGED <<allocated, procs, live_sessions, cleanup_tasks, sent>>
    /\ UNCHANGED liveVars
    /\ UNCHANGED <<call, active_connections>>

\* cleanup_old_memory_sessions, the background task of the End route: the
\* persisted sessions whose updated_at is more than an hour old (old)
BackgroundCleanup(old) ==
    /\ old # {}
    /\ old \subseteq Persisted(sessions)
    /\ delete_sessions(old)
    /\ UNCHANGED <<allocated, procs, live_sessions, cleanup_tasks, sent>>
    /\ UNCHANGED liveVars
    /\ UNCHANGED <<call, active_connections>>

\* DELETE /memory/session/{session_id}: 404 for a session that is not in
\* memory, else delete_session; the handler does not suspend
ForceDelete(sid) ==
    /\ sid \in DOMAIN sessions
    /\ delete_session(sid)
    /\ UNCHANGED <<allocated, procs, live_sessions, cleanup_tasks, sent>>
    /\ UNCHANGED liveVars
    /\ UNCHANGED <<call, active_connections>>

AddWebsocketToAll(sid, ws) ==
    /\ ws \notin Elems(get_websockets(sid))
    /\ websocket_connections' =
          [x \in DOMAIN websocket_connections \cup {sid} |->
              IF ws \in Elems(get_websockets(x)) THEN get_websockets(x)
              ELSE Append(get_websockets(x), ws)]
    /\ UNCHANGED <<allocated, procs, live_sessions, sessions, session_metadata,
                   cleanup_tasks, sent>>
    /\ UNCHANGED liveVars
    /\ UNCHANGED <<call, active_connections>>

\* MemorySessionStore.add_websocket
AddWebsocket(sid, ws) ==
    /\ ws \notin Elems(get_websockets(sid))
    /\ websocket_connections' = Put(websocket_connections, sid,
                                    Append(get_websockets(sid), ws))
    /\ UNCHANGED <<allocated, procs, live_sessions, sessions, session_metadata,
                   cleanup_tasks, sent>>
    /\ UNCHANGED liveVars
    /\ UNCHANGED <<call, active_connections>>

\* MemorySessionStore.remove_websocket
RemoveWebsocket(sid, ws) ==
    /\ ws \in Elems(get_websockets(sid))
    /\ websocket_connections' = [websocket_connections EXCEPT ![sid] = ListRemove(@, ws)]
    /\ UNCHANGED <<allocated, procs, live_sessions, sessions, session_metadata,
                   cleanup_tasks, sent>>
    /\ UNCHANGED liveVars
    /\ UNCHANGED <<call, active_connections>>

\* Start and End of MemoryLiveSessionService, the deferred removal and the
\* WebSocket registry, open to the handler slots P, on the session ids S, with
\* the WebSockets O and the traversal modes M
MemCore(P, S, O, M) ==
    \/ \E p \in P, sid \in S, ayah \in MoveAyat, mode \in M, io \in IoOutcomes :
           MemStartSession(p, sid, ayah, mode, io)
    \/ \E p \in P, sid \in S \cup {NoSuchSession} : MemEndSession(p, sid)
    \/ \E p \in Procs, io \in IoOutcomes : MemEndPersist(p, io)
    \/ \E p \in Procs, io \in IoOutcomes : MemEndSend(p, io)
    \/ \E sid \in S : DelayedCleanup(sid)
    \/ \E sid \in S, ws \in O : AddWebsocket(sid, ws)
    \/ \E sid \in S, ws \in O : RemoveWebsocket(sid, ws)

\* MoveTo and Status of MemoryLiveSessionService
MemOther(P, S) ==
    \/ \E p \in P, sid \in S \cup {NoSuchSession}, a \in MoveAyat, pos \in MovePositions :
           MemMoveAyah(p, sid, a, pos)
    \/ \E p \in Procs, io \in IoOutcomes : MemMoveCommit(p, io)
    \/ \E p \in Procs, io \in IoOutcomes : MemMoveSend(p, io)
    \/ \E p \in P, sid \in S \cup {NoSuchSession}, io \in IoOutcomes :
           MemGetSessionStatus(p, sid, io)

\* the cleanup passes and the forced delete, on the session ids S
MemCleanup(S) ==
    \/ MaintenanceCleanup
    \/ \E old \in SUBSET S : BackgroundCleanup(old)
    \/ \E sid \in S : ForceDelete(sid)

\* the in-memory service, one request at a time, one session, one WebSocket
MemSeqNext == MemCore({1}, {1}, {1}, {"surah"}) \/ MemOther({1}, {1})
MemSeqSpec == Init /\ [][MemSeqNext]_vars

\* the in-memory service, overlapping Start and End requests
MemNext == MemCore(Procs, {1}, {1}, Modes)
MemSpec == Init /\ [][MemNext]_vars

\* Start and End of the in-memory service, one request at a time, every
\* WebSocket.  The event loop runs a _delayed_cleanup task that exists, and a
\* send to a WebSocket other than StalledObserver completes (or raises); the
\* send to StalledObserver may never complete.
StalledObserver == MaxObservers
MemEndNext == MemCore({1}, {1}, Observers, {"surah"})
MemEndFairness ==
    /\ \A sid \in SessionIds : WF_vars(DelayedCleanup(sid))
    /\ WF_vars(\E p \in Procs, io \in IoOutcomes :
                  MemEndSend(p, io) /\ Head(procs[p].loc.websockets) # StalledObserver)
MemEndFairSpec == Init /\ [][MemEndNext]_vars /\ MemEndFairness

\* Start and End of the in-memory service, one request at a time, on every
\* session id, with the cleanup passes and the forced delete
MemCleanupNext == MemCore({1}, SessionIds, {1}, {"surah"}) \/ MemCleanup(SessionIds)
MemCleanupSpec == Init /\ [][MemCleanupNext]_vars

\* the operations of the in-memory service that broadcast, one request at a
\* time on one session started on its first ayah, every WebSocket
MemBroadcastNext ==
    \/ \E io \in IoOutcomes : MemStartSession(1, 1, 1, "surah", io)
    \/ \E a \in MoveAyat : MemMoveAyah(1, 1, a, 0)
    \/ \E io \in IoOutcomes : MemMoveCommit(1, io)
    \/ \E io \in IoOutcomes : MemMoveSend(1, io)
    \/ MemEndSession(1, 1)
    \/ \E io \in IoOutcomes : MemEndPersist(1, io)
    \/ \E io \in IoOutcomes : MemEndSend(1, io)
    \/ DelayedCleanup(1)
    \/ \E ws \in Observers : AddWebsocket(1, ws)
    \/ \E ws \in Observers : RemoveWebsocket(1, ws)
MemBroadcastSpec == Init /\ [][MemBroadcastNext]_vars

\* Start and End of both services, one request at a time, on every session id
StartNext ==
    \/ \E sid \in SessionIds, ayah \in MoveAyat, io \in IoOutcomes :
           LiveStartSession(1, sid, ayah, "juz", io)
    \/ \E sid \in SessionIds, io \in IoOutcomes : LiveEndSession(1, sid, io)
    \/ MemCore({1}, SessionIds, {1}, {"page"})
StartSpec == Init /\ [][StartNext]_vars

\* MoveTo and Status of both services, one request at a time: session 1 of
\* LiveSessionService, with provisional frames and restarts, and session 2 of
\* the in-memory service, with one WebSocket
MoveNext ==
    \/ \E ayah \in AyahNumbers, io \in IoOutcomes :
           LiveStartSession(1, 1, ayah, "surah", io)
    \/ \E t \in OverlapTranscripts : LiveUpdateSession(1, 1, t, FALSE)
    \/ \E a \in MoveAyat, pos \in MovePositions : LiveMoveAyahSession(1, 1, a, pos)
    \/ \E io \in IoOutcomes : LiveLoadSession(1, io)
    \/ \E io \in IoOutcomes : LiveMoveCommit(1, io)
    \/ LiveRestart
    \/ \E sid \in {1, NoSuchSession} : LiveGetSessionStatus(1, sid)
    \/ \E sid \in {2, NoSuchSession}, io \in IoOutcomes : MemGetSessionStatus(1, sid, io)
    \/ \E io \in IoOutcomes : MemStartSession(1, 2, 1, "surah", io)
    \/ \E a \in MoveAyat, pos \in MovePositions : MemMoveAyah(1, 2, a, pos)
    \/ \E io \in IoOutcomes : MemMoveCommit(1, io)
    \/ \E io \in IoOutcomes : MemMoveSend(1, io)
    \/ AddWebsocket(2, 1)
    \/ RemoveWebsocket(2, 1)
MoveSpec == Init /\ [][MoveNext]_vars

\* two sessions at once, of either service: handler slot 1 serves the
\* requests of session 1 while slot 2 serves those of session 2, so that the
\* operations of the two sessions interleave at every await; with the End
\* route's background task and the forced delete.  Final transcripts only;
\* session 1 is the one that is moved and observed.
IsolationTranscripts == { W1, W1 \o <<SP>> \o W2 }

IsolationNext ==
    \/ \E p \in {1, 2}, io \in IoOutcomes : LiveStartSession(p, p, 1, "surah", io)
    \/ \E p \in {1, 2}, t \in IsolationTranscripts : LiveUpdateSession(p, p, t, TRUE)
    \/ \E p \in {1, 2}, io \in IoOutcomes : LiveUpdateCommit(p, io)
    \/ \E p \in {1, 2}, io \in IoOutcomes : LiveAdvance(p, io)
    \/ \E p \in {1, 2}, io \in IoOutcomes : LiveLoadSession(p, io)
    \/ \E p \in {1, 2}, io \in IoOutcomes : LiveEndSession(p, p, io)
    \/ \E p \in {1, 2}, io \in IoOutcomes : MemStartSession(p, p, 1, "surah", io)
    \/ MemMoveAyah(1, 1, 2, 1)
    \/ \E io \in IoOutcomes : MemMoveCommit(1, io)
    \/ \E io \in IoOutcomes : MemMoveSend(1, io)
    \/ \E p \in {1, 2} : MemEndSession(p, p)
    \/ \E p \in {1, 2}, io \in IoOutcomes : MemEndPersist(p, io)
    \/ \E io \in IoOutcomes : MemEndSend(1, io)
    \/ \E sid \in {1, 2} : DelayedCleanup(sid)
    \/ AddWebsocket(1, 1)
    \/ RemoveWebsocket(1, 1)
    \/ \E sid \in {1, 2} : ForceDelete(sid)
    \/ \E old \in SUBSET {1, 2} : BackgroundCleanup(old)
IsolationSpec == Init /\ [][IsolationNext]_vars

\* WebSockets connecting to and disconnecting from two sessions of the
\* in-memory service, at any moment of a MoveTo on session 1 or of an End on
\* session 2
ObserverNext ==
    \/ \E sid \in {1, 2}, ws \in Observers : AddWebsocket(sid, ws)
    \/ \E sid \in {1, 2}, ws \in Observers : RemoveWebsocket(sid, ws)
    \/ \E sid \in {1, 2} : MemStartSession(1, sid, 1, "surah", "ok")
    \/ MemMoveAyah(1, 1, 2, 1)
    \/ \E io \in IoOutcomes : MemMoveCommit(1, io)
    \/ \E io \in IoOutcomes : MemMoveSend(1, io)
    \/ MemEndSession(1, 2)
    \/ \E io \in IoOutcomes : MemEndPersist(1, io)
    \/ \E io \in IoOutcomes : MemEndSend(1, io)
    \/ DelayedCleanup(2)
ObserverSpec == Init /\ [][ObserverNext]_vars

\* transcripts over the /ws/live endpoint of the in-memory service, with
\* MoveTo, one session and one WebSocket
MemTranscriptNext ==
    \/ \E ayah \in MoveAyat, io \in IoOutcomes : MemStartSession(1, 1, ayah, "surah", io)
    \/ \E a \in MoveAyat, pos \in MovePositions : MemMoveAyah(1, 1, a, pos)
    \/ \E io \in IoOutcomes : MemMoveCommit(1, io)
    \/ \E io \in IoOutcomes : MemMoveSend(1, io)
    \/ AddWebsocket(1, 1)
    \/ \E sid \in {1, NoSuchSession}, t \in Transcripts, f \in BOOLEAN, io \in IoOutcomes :
           HandleTranscriptMessage(1, sid, 1, t, f, io)
    \/ \E io \in IoOutcomes : HandleTranscriptSend(1, io)
MemTranscriptSpec == Init /\ [][MemTranscriptNext]_vars

\* changes of unit and position with an observer connected: session 1 of
\* LiveSessionService with a /ws/live endpoint in slot 2, session 2 of the
\* in-memory service, requests one at a time in slot 1
NotifyNext ==
    \/ \E ayah \in MoveAyat, io \in IoOutcomes : LiveStartSession(1, 1, ayah, "surah", io)
    \/ \E t \in OverlapTranscripts : LiveUpdateSession(1, 1, t, TRUE)
    \/ \E io \in IoOutcomes : LiveUpdateCommit(1, io)
    \/ \E io \in IoOutcomes : LiveAdvance(1, io)
    \/ LiveMoveAyahSession(1, 1, 1, 0)
    \/ \E io \in IoOutcomes : LiveMoveCommit(1, io)
    \/ \E io \in IoOutcomes : LiveEndSession(1, 1, io)
    \/ \E io \in IoOutcomes : WebsocketLiveTranscript(2, 1, 1, io)
    \/ WebsocketLiveDisconnect(2)
    \/ MemStartSession(1, 2, 1, "surah", "ok")
    \/ MemMoveAyah(1, 2, 2, 1)
    \/ \E io \in IoOutcomes : MemMoveCommit(1, io)
    \/ \E io \in IoOutcomes : MemMoveSend(1, io)
    \/ MemEndSession(1, 2)
    \/ \E io \in IoOutcomes : MemEndPersist(1, io)
    \/ \E io \in IoOutcomes : MemEndSend(1, io)
    \/ AddWebsocket(2, 1)
NotifySpec == Init /\ [][NotifyNext]_vars

\* the /ws/live endpoint of the database-backed service: sessions are
\* started, WebSockets connect to them and go away, and transcript results
\* are broadcast
ConnectionNext ==
    \/ \E p \in Procs, ayah \in AyahNumbers, io \in IoOutcomes :
           LiveStartSession(p, 1, ayah, "surah", io)
    \/ \E p \in Procs, websocket \in Observers, sid \in {1, NoSuchSession},
          io \in IoOutcomes :
           WebsocketLiveTranscript(p, websocket, sid, io)
    \/ \E p \in Procs : WebsocketLiveDisconnect(p)
    \/ \E p \in Procs, io \in IoOutcomes : broadcast_to_session(p, io)
ConnectionSpec == Init /\ [][ConnectionNext]_vars

\* either service, one request at a time, one session, one WebSocket
ServiceNext == LiveCore({1}, {1}, OverlapTranscripts) \/ MemSeqNext
ServiceSpec == Init /\ [][ServiceNext]_vars

(***************************************************************************)
(* AlignmentService.compare_transcript, followed word by word.             *)
(***************************************************************************)
W1D == <<AB, DIAC, AS, AM>>          \* W1 written with a kasra
WL  == <<LA, LB>>                    \* a transliterated word
W1S == <<AB, AS>>                    \* W1 cut short: scores above 0.7 against W1

\* the sequences over S of length 0..n
SeqsUpTo(S, n) == UNION {[1..k -> S] : k \in 0..n}

\* expected words and the words a reciter may say
ExpectedWordSet == {W1, W2, WX, W1D, WL}
SpokenWordSet == {W1, W2, W3, WL, <<UA, LB>>, W1S}

ExpectedLists == SeqsUpTo(ExpectedWordSet, MaxExpected)

\* transcripts: words separated by one space; a transcript with surrounding
\* and doubled spaces; blank transcripts; a lone punctuation mark
SpokenTranscripts ==
    {JoinWords(ws) : ws \in SeqsUpTo(SpokenWordSet, MaxSpoken)}
    \cup {<<SP>> \o W2 \o <<SP, SP>> \o W1 \o <<SP>>, <<SP>>, <<SP, SP>>, <<PUNCT>>}

EmptyAcc(total) == [results |-> <<>>, summary |-> ZeroSummary(total), used |-> {}]

CompareCall(expected_words, spoken_transcript, is_final) ==
    [fn |-> "compare_transcript", pc |-> "called",
     expected_words |-> expected_words, spoken_transcript |-> spoken_transcript,
     is_final |-> is_final, spoken_words |-> <<>>, position |-> 0,
     acc |-> EmptyAcc(0), returned |-> <<>>]

\* a call of compare_transcript is about to run
CompareInit ==
    /\ ServicesInit
    /\ call \in {CompareCall(e, t, f) :
                    e \in ExpectedLists, t \in SpokenTranscripts, f \in BOOLEAN}

\* lines 132-146: the early return, or the split of the normalised transcript
CompareBegin ==
    /\ call.pc = "called"
    /\ call' =
          IF call.expected_words = <<>>
          THEN [call EXCEPT !.pc = "returned",
                            !.returned = <<[results |-> <<>>, summary |-> ZeroSummary(0)]>>]
          ELSE [call EXCEPT !.pc = "loop",
                            !.spoken_words =
                                Split(normalize_for(~is_arabic(call.spoken_transcript),
                                                    call.spoken_transcript)),
                            !.acc = EmptyAcc(Len(call.expected_words))]
    /\ UNCHANGED <<allocated, procs, live_sessions>>
    /\ UNCHANGED liveVars
    /\ UNCHANGED memVars
    /\ UNCHANGED active_connections

\* lines 148-218: one turn of the loop over expected_words
CompareWord ==
    /\ call.pc = "loop"
    /\ call.position < Len(call.expected_words)
    /\ call' = [call EXCEPT
                   !.position = @ + 1,
                   !.acc = CompareStep(call.expected_words[call.position + 1],
                                       call.position, call.spoken_words,
                                       call.is_final, call.acc)]
    /\ UNCHANGED <<allocated, procs, live_sessions>>
    /\ UNCHANGED liveVars
    /\ UNCHANGED memVars
    /\ UNCHANGED active_connections

\* line 220
CompareReturn ==
    /\ call.pc = "loop"
    /\ call.position = Len(call.expected_words)
    /\ call' = [call EXCEPT !.pc = "returned", !.returned = <<Returned(call.acc)>>]
    /\ UNCHANGED <<allocated, procs, live_sessions>>
    /\ UNCHANGED liveVars
    /\ UNCHANGED memVars
    /\ UNCHANGED active_connections

CompareNext == CompareBegin \/ CompareWord \/ CompareReturn
CompareSpec == CompareInit /\ [][CompareNext]_vars

(***************************************************************************)
(* AlignmentService.generate_position_index / parse_position_index.        *)
(* Strings are sequences of character codes; the digit d is DIGIT0 + d.    *)
(***************************************************************************)
DOT    == 46     \* '.'
MINUS  == 45     \* '-'
DIGIT0 == 48     \* '0'

IsDigit(c) == c \in DIGIT0..(DIGIT0 + 9)

FormatIntReversed(n) ==
    IF n < 10 THEN <<DIGIT0 + n>>
    ELSE <<DIGIT0 + (n % 10)>> \o <<DIGIT0 + (n \div 10)>>

\* str(n) of an integer n >= 0, as the f-string writes it
RECURSIVE FormatInt(_)
FormatInt(n) ==
    IF n < 10 THEN <<DIGIT0 + n>>
    ELSE FormatInt(n \div 10) \o <<DIGIT0 + (n % 10)>>

\* f"{surah_id}.{ayah}.{word_position}"
generate_position_index(surah_id, ayah, word_position) ==
    FormatInt(surah_id) \o <<DOT>> \o FormatInt(ayah) \o <<DOT>> \o FormatInt(word_position)

\* str.split('.'): the pieces between the dots, empty ones included
RECURSIVE SplitOnDot(_, _)
SplitOnDot(s, cur) ==
    IF s = <<>> THEN <<cur>>
    ELSE IF Head(s) = DOT THEN <<cur>> \o SplitOnDot(Tail(s), <<>>)
    ELSE SplitOnDot(Tail(s), Append(cur, Head(s)))

\* str.strip()
RECURSIVE LStrip(_)
LStrip(s) == IF s # <<>> /\ Head(s) = SP THEN LStrip(Tail(s)) ELSE s

RECURSIVE RStrip(_)
RStrip(s) == IF s # <<>> /\ s[Len(s)] = SP THEN RStrip(SubSeq(s, 1, Len(s) - 1)) ELSE s

\* the value of a run of decimal digits
RECURSIVE DigitsValue(_, _)
DigitsValue(s, acc) ==
    IF s = <<>> THEN acc ELSE DigitsValue(Tail(s), 10 * acc + (Head(s) - DIGIT0))

\* int(text): surrounding whitespace dropped, an optional sign, then digits
\* only; <<value>>, or <<>> for ValueError
ParseUnsigned(s, sign) ==
    IF s # <<>> /\ \A i \in 1..Len(s) : IsDigit(s[i])
    THEN <<sign * DigitsValue(s, 0)>> ELSE <<>>

ParseStripped(s) ==
    IF s # <<>> /\ Head(s) = MINUS THEN ParseUnsigned(Tail(s), -1)
    ELSE ParseUnsigned(s, 1)

ParseInt(text) == ParseStripped(LStrip(RStrip(text)))

\* parse_position_index, given the parts: <<triple>>, or <<>> for ValueError
ParseParts(parts) ==
    IF Len(parts) # 3 THEN <<>>
    ELSE IF \E i \in 1..3 : ParseInt(parts[i]) = <<>> THEN <<>>
    ELSE << <<ParseInt(parts[1])[1], ParseInt(parts[2])[1], ParseInt(parts[3])[1]>> >>

parse_position_index(index) == ParseParts(SplitOnDot(index, <<>>))

\* the numbers and the strings handed to the two methods
IndexNumbers == 0..MaxIndex
IndexAlphabet == {DIGIT0 + 1, DIGIT0 + 2, DOT, SP, MINUS, LA}
IndexStrings == SeqsUpTo(IndexAlphabet, MaxIndexLen)

GenerateCall(surah_id, ayah, word_position) ==
    [fn |-> "generate_position_index", pc |-> "called",
     args |-> <<surah_id, ayah, word_position>>, index |-> <<>>, returned |-> <<>>]

ParseCall(args, index) ==
    [fn |-> "parse_position_index", pc |-> "called",
     args |-> args, index |-> index, returned |-> <<>>]

\* one of the two methods is about to run
IndexInit ==
    /\ ServicesInit
    /\ call \in {GenerateCall(c, u, w) : c \in IndexNumbers, u \in {0, 5, MaxIndex},
                                          w \in {0, MaxIndex - 1}}
               \cup {ParseCall(<<>>, index) : index \in IndexStrings}

\* line 224
GeneratePositionIndex ==
    /\ call.fn = "generate_position_index"
    /\ call.pc = "called"
    /\ call' = [call EXCEPT !.pc = "returned",
                            !.returned = <<generate_position_index(call.args[1],
                                               call.args[2], call.args[3])>>]
    /\ UNCHANGED <<allocated, procs, live_sessions>>
    /\ UNCHANGED liveVars
    /\ UNCHANGED memVars
    /\ UNCHANGED active_connections

\* the caller hands the index it got to parse_position_index
ParseGenerated ==
    /\ call.fn = "generate_position_index"
    /\ call.pc = "returned"
    /\ call' = ParseCall(call.args, call.returned[1])
    /\ UNCHANGED <<allocated, procs, live_sessions>>
    /\ UNCHANGED liveVars
    /\ UNCHANGED memVars
    /\ UNCHANGED active_connections

\* lines 228-235: the triple is returned, or ValueError is raised
ParsePositionIndex ==
    /\ call.fn = "parse_position_index"
    /\ call.pc = "called"
    /\ call' = IF parse_position_index(call.index) = <<>>
               THEN [call EXCEPT !.pc = "raised"]
               ELSE [call EXCEPT !.pc = "returned",
                                 !.returned = parse_position_index(call.index)]
    /\ UNCHANGED <<allocated, procs, live_sessions>>
    /\ UNCHANGED liveVars
    /\ UNCHANGED memVars
    /\ UNCHANGED active_connections

IndexNext == GeneratePositionIndex \/ ParseGenerated \/ ParsePositionIndex
IndexSpec == IndexInit /\ [][IndexNext]_vars

(***************************************************************************)
(* Properties of LiveSessionService.update_session                         *)
(***************************************************************************)
\* the step in which handler p resumes from save_transcript_log and commits
CommitStep(p) ==
    /\ procs[p].pc = "save_transcript"
    /\ \/ procs'[p].pc = "advance"
       \/ procs'[p].pc = "done" /\ procs'[p].outcome = "ok"

\* the step in which handler p resumes inside _advance_to_next_ayah and returns
AdvanceStep(p) ==
    /\ procs[p].pc = "advance"
    /\ procs'[p].pc = "done"

C2_FinalAdvancesByMatched ==
    [][\A p \in Procs :
         CommitStep(p) =>
            /\ procs[p].sid \in DOMAIN active_sessions'
            /\ active_sessions'[procs[p].sid].position
                 = active_sessions[procs[p].sid].position
                   + Cardinality({i \in 1..Len(procs[p].loc.results) :
                                     procs[p].loc.results[i].status = "matched"})
            /\ live_sessions'[procs[p].sid][1].position
                 = active_sessions'[procs[p].sid].position]_vars

\* a final ApplyTranscript with a Matched and a Mismatched word has returned,
\* and the position stands after the one Matched word
C2_Witness ==
    \E sid \in DOMAIN active_sessions :
       /\ procs[1] = Done("update", "ok")
       /\ active_sessions[sid].current_ayah.ayah = 1
       /\ active_sessions[sid].position = 1
       /\ active_sessions[sid].provisional_results = <<>>
       /\ live_sessions[sid][1].position = 1

\* the step in which a provisional ApplyTranscript of handler p runs from its
\* start to its return (the session is cached)
ProvisionalStep(p) ==
    /\ Free(p)
    /\ procs'[p] = Done("update", "ok")
    /\ procs' # procs \/ active_sessions' # active_sessions

\* the step in which a provisional ApplyTranscript returns after reloading
\* its session from the database
ProvisionalReloadStep(p) ==
    /\ procs[p].pc = "load_session"
    /\ procs[p].op = "update"
    /\ ~procs[p].loc.is_final
    /\ procs'[p] = Done("update", "ok")

\* stored provisional results: one per word of the window, in order, none final
ProvisionalShape(entry) ==
    /\ Len(entry.provisional_results)
          = Len(Lookahead(entry.current_words, entry.position))
    /\ \A i \in 1..Len(entry.provisional_results) :
          /\ entry.provisional_results[i].position = entry.position + i - 1
          /\ entry.provisional_results[i].status
                \in {"provis_matched", "provis_mismatched", "skipped"}

\* C3: a provisional ApplyTranscript changes neither position nor unit and
\* writes nothing to the database; it only replaces the stored provisional
\* results by those of the call; a final ApplyTranscript that returns leaves
\* the stored provisional results empty.
C3_ProvisionalOnlyStoresResults ==
    /\ [][\A p \in Procs :
            ProvisionalStep(p) =>
               /\ live_sessions' = live_sessions
               /\ session_obj' = session_obj
               /\ DOMAIN active_sessions' = DOMAIN active_sessions
               /\ \A sid \in DOMAIN active_sessions :
                     /\ active_sessions'[sid].position = active_sessions[sid].position
                     /\ active_sessions'[sid].current_ayah
                           = active_sessions[sid].current_ayah
                     /\ active_sessions'[sid].current_words
                           = active_sessions[sid].current_words
                     /\ \/ active_sessions'[sid].provisional_results
                              = active_sessions[sid].provisional_results
                        \/ ProvisionalShape(active_sessions'[sid])]_vars
    /\ [][\A p \in Procs :
            ProvisionalReloadStep(p) =>
               /\ live_sessions' = live_sessions
               /\ procs[p].sid \in DOMAIN active_sessions'
               /\ active_sessions'[procs[p].sid].position
                     = live_sessions[procs[p].sid][1].position
               /\ active_sessions'[procs[p].sid].current_ayah.ayah
                     = live_sessions[procs[p].sid][1].ayah
               /\ ProvisionalShape(active_sessions'[procs[p].sid])]_vars
    /\ [][\A p \in Procs :
            (CommitStep(p) \/ AdvanceStep(p)) /\ procs[p].sid \in DOMAIN active_sessions'
            => active_sessions'[procs[p].sid].provisional_results = <<>>]_vars

\* a provisional ApplyTranscript has returned: its results are stored, with a
\* provisional match among them, and cache and database agree on the position
C3_Witness ==
    \E sid \in DOMAIN active_sessions :
       /\ procs[1] = Done("update", "ok")
       /\ active_sessions[sid].provisional_results # <<>>
       /\ active_sessions[sid].provisional_results[1].status = "provis_matched"
       /\ active_sessions[sid].position = live_sessions[sid][1].position
       /\ live_sessions[sid][1].status = "active"

C9_AbsentOrEndedRejected ==
    [][\A p \in Procs, sid \in SessionIds \cup {NoSuchSession} :
         /\ (\E io \in IoOutcomes : LiveEndSession(p, sid, io))
            /\ sid \notin DOMAIN active_sessions
            /\ (sid \notin DOMAIN live_sessions \/ live_sessions[sid][1].status = "ended")
            => procs'[p].outcome \in {"error", "not_found"}
         /\ MemEndSession(p, sid)
            /\ sid \in DOMAIN sessions /\ sessions[sid].is_persisted
            => procs'[p].pc = "done" /\ procs'[p].outcome \in {"error", "not_found"}]_vars

\* C10: a session is marked persisted only when a snapshot of it has been
\* written; notifications of the end and deferred removals exist only after a
\* write; an End whose write fails returns the error and changes nothing.
C10_PersistedOnlyAfterWrite ==
    /\ [](\A sid \in DOMAIN sessions :
            sessions[sid].is_persisted => sid \in DOMAIN live_sessions)
    /\ [](\A sid \in SessionIds :
            cleanup_tasks[sid] > 0 => sid \in DOMAIN live_sessions)
    /\ [](\A m \in sent : m[2] = "session_ended" => m[3] \in DOMAIN live_sessions)
    /\ [][\A p \in Procs :
            procs[p].pc = "mem_persist" /\ procs'[p] = Done("end", "error")
            => /\ sessions' = sessions
               /\ live_sessions' = live_sessions
               /\ sent' = sent
               /\ cleanup_tasks' = cleanup_tasks
               /\ websocket_connections' = websocket_connections]_vars

\* an End has failed in its write: the session is in memory, not persisted,
\* its WebSocket has been told nothing and no removal is pending
C10_Witness ==
    \E p \in Procs, sid \in DOMAIN sessions :
       /\ procs[p] = Done("end", "error")
       /\ ~sessions[sid].is_persisted
       /\ sid \notin DOMAIN live_sessions
       /\ get_websockets(sid) # <<>>
       /\ sent = {}
       /\ cleanup_tasks[sid] = 0

C12_RemovedOnlyPersistedOrForced ==
    [][\A sid \in DOMAIN sessions :
          sid \notin DOMAIN sessions'
          => sessions[sid].is_persisted \/ ForceDelete(sid)]_vars

\* the persisted session 1 has been removed ahead of its deferred cleanup,
\* and the session 2, which is not persisted, is still in the store
C12_Witness ==
    /\ 1 \in allocated
    /\ 1 \notin DOMAIN sessions
    /\ 1 \in DOMAIN live_sessions
    /\ cleanup_tasks[1] > 0
    /\ 2 \in DOMAIN sessions
    /\ ~sessions[2].is_persisted

(***************************************************************************)
(* Properties of the broadcasts                                            *)
(***************************************************************************)
\* handler p is inside the send loop of a broadcast
Broadcasting(p) == procs[p].pc \in {"mem_move_send", "mem_end_send"}

\* the step in which handler p commits its MoveTo or its End and starts the
\* broadcast
BroadcastStart(p) ==
    /\ procs[p].pc \in {"mem_move_get_ayat", "mem_persist"}
    /\ procs'[p] # procs[p]
    /\ procs'[p].outcome \notin {"error", "not_found"}

\* C13: a broadcast is handed the list of the WebSockets registered for the
\* session when it starts and attempts them one after the other; whatever a
\* send does, success or failure, the loop goes on to the next WebSocket of
\* that list, and after the last one the MoveTo or End returns success.
C13_BroadcastAttemptsEveryObserver ==
    [][\A p \in Procs :
         /\ BroadcastStart(p)
            => IF get_websockets(procs[p].sid) = <<>>
               THEN procs'[p] = Done(procs[p].op, "ok")
               ELSE /\ Broadcasting(p)'
                    /\ procs'[p].loc.websockets = get_websockets(procs[p].sid)
         /\ Broadcasting(p) /\ procs'[p] # procs[p]
            => /\ \/ sent' = sent
                  \/ sent' = sent \cup {<<Head(procs[p].loc.websockets),
                                          IF procs[p].op = "move" THEN "ayah_moved"
                                          ELSE "session_ended",
                                          procs[p].sid>>}
               /\ IF Len(procs[p].loc.websockets) > 1
                  THEN /\ procs'[p].pc = procs[p].pc
                       /\ procs'[p].loc.websockets = Tail(procs[p].loc.websockets)
                  ELSE procs'[p] = Done(procs[p].op, "ok")]_vars

\* the session_ended broadcast to the WebSockets 1 and 2 has had its send to 1
\* raise (nothing is delivered) and is now sending to 2
C13_Witness ==
    /\ procs[1].pc = "mem_end_send"
    /\ procs[1].loc.websockets = <<2>>
    /\ get_websockets(1) = <<1, 2>>
    /\ sent = {}

\* the step is handler p's return from a send that raised / that delivered
SendFailed(p) ==
    /\ MemMoveSend(p, "fail") \/ MemEndSend(p, "fail")
    /\ ~(MemMoveSend(p, "ok") \/ MemEndSend(p, "ok"))

SendDelivered(p) ==
    /\ MemMoveSend(p, "ok") \/ MemEndSend(p, "ok")
    /\ ~(MemMoveSend(p, "fail") \/ MemEndSend(p, "fail"))

\* the WebSockets registered for sid before and after the step
ObserversBefore(sid) == Elems(get_websockets(sid))
ObserversAfter(sid) ==
    IF sid \in DOMAIN websocket_connections'
    THEN Elems(websocket_connections'[sid]) ELSE {}

Held == <<active_sessions, session_obj, sessions, websocket_connections,
          session_metadata, live_sessions, allocated>>

\* the step adds the key sid to the dict f and changes no other entry
AddsOnly(f, g, sid) ==
    /\ sid \notin DOMAIN f
    /\ DOMAIN g = DOMAIN f \cup {sid}
    /\ \A other \in DOMAIN f : g[other] = f[other]

MemMoveCommitted(p) ==
    /\ procs[p].pc = "mem_move_get_ayat"
    /\ procs'[p].pc = "mem_move_send" \/ procs'[p] = Done("move", "ok")

\* the position MoveTo is to store for a request of position pos on a unit of
\* n words
InRangeOrZero(pos, n) == IF pos < 0 \/ pos > n THEN 0 ELSE pos

\* C16: a MoveTo that succeeds leaves the session on the requested ayah, at
\* the requested position when that lies within the words of the ayah and at
\* 0 otherwise.
C16_MoveStoresClampedPosition ==
    [][\A p \in Procs :
         MemMoveCommitted(p)
         => /\ sessions'[procs[p].sid].ayah = procs[p].loc.new_ayah
            /\ sessions'[procs[p].sid].position =
                  InRangeOrZero(procs[p].loc.new_position,
                                Len(QuranAyat(procs[p].loc.new_ayah).words_array))]_vars

\* the step is handler p's return from a provider lookup that raised, or that
\* found no such ayah
MemMoveLookupFailed(p) ==
    \/ MemMoveCommit(p, "fail")
    \/ MemMoveCommit(p, "ok") /\ procs[p].loc.new_ayah \notin AyahNumbers

LiveMoveLookupFailed(p) ==
    \/ LiveMoveCommit(p, "fail")
    \/ LiveMoveCommit(p, "ok") /\ procs[p].loc.new_ayah \notin AyahNumbers

\* C17: a MoveTo whose ayah the provider does not have, or whose provider call
\* raises, returns an error and leaves everything as it was: the session's
\* ayah and position, the cached words and provisional results, the database
\* row, the WebSocket lists; and it delivers no message.
C17_FailedMoveCommitsNothing ==
    [][\A p \in Procs :
         /\ MemMoveLookupFailed(p)
            => /\ procs'[p].pc = "done"
               /\ procs'[p].outcome \in {"error", "not_found"}
               /\ UNCHANGED <<sessions, websocket_connections, session_metadata,
                              sent, live_sessions>>
         /\ LiveMoveLookupFailed(p)
            => /\ procs'[p].pc = "done"
               /\ procs'[p].outcome \in {"error", "not_found"}
               /\ UNCHANGED <<active_sessions, session_obj, live_sessions, sent>>]_vars

\* a MoveTo of the session of LiveSessionService has failed on an ayah the
\* provider does not have; the session keeps its provisional results
C17_Witness ==
    /\ procs[1] = Done("move", "not_found")
    /\ 1 \in DOMAIN active_sessions
    /\ active_sessions[1].provisional_results # <<>>
    /\ active_sessions[1].current_ayah.ayah = 2

(***************************************************************************)
(* Properties of Status                                                    *)
(***************************************************************************)
\* the step is one of a Status handler running in slot p
StatusStep(p) == procs'[p] # procs[p] /\ procs'[p].op = "status"

C19_HandedSessionIsSnapshot ==
    \A p \in Procs :
       procs[p].pc = "mem_move_send"
       => procs[p].loc.previous_ayah = procs[p].loc.session[1].ayah

(***************************************************************************)
(* Properties of two sessions side by side                                 *)
(***************************************************************************)
\* all that either service holds of session sid
SessionView(sid) ==
    << IF sid \in DOMAIN active_sessions THEN <<active_sessions[sid]>> ELSE <<>>,
       IF sid \in DOMAIN session_obj THEN <<session_obj[sid]>> ELSE <<>>,
       IF sid \in DOMAIN live_sessions THEN live_sessions[sid] ELSE <<>>,
       IF sid \in DOMAIN sessions THEN <<sessions[sid]>> ELSE <<>>,
       get_websockets(sid),
       sid \in DOMAIN websocket_connections,
       sid \in session_metadata >>

\* the sessions a step changes
Changed == {sid \in SessionIds : SessionView(sid)' # SessionView(sid)}

ObserverStep(sid) ==
    \E ws \in Observers : AddWebsocket(sid, ws) \/ RemoveWebsocket(sid, ws)

\* C21: a WebSocket connecting to or disconnecting from a session, at any
\* moment of the other operations, changes the observer set of that session
\* by that one WebSocket and nothing else: the stored sessions (unit,
\* position, status, is_persisted), the lists of the other sessions, the
\* handlers in flight and the messages delivered are as before.
C21_ObserverChangeTouchesOnlyObservers ==
    [][\A sid \in SessionIds :
         ObserverStep(sid) =>
            /\ sessions' = sessions
            /\ session_metadata' = session_metadata
            /\ live_sessions' = live_sessions
            /\ sent' = sent
            /\ procs' = procs
            /\ \A other \in SessionIds \ {sid} :
                   get_websockets(other)' = get_websockets(other)
            /\ \E ws \in Observers :
                   \/ ObserversAfter(sid) = ObserversBefore(sid) \cup {ws}
                   \/ ObserversAfter(sid) = ObserversBefore(sid) \ {ws}]_vars

\* a WebSocket has connected to session 2 while a MoveTo on session 1 is in
\* the middle of its broadcast to another WebSocket
C21_Witness ==
    /\ procs[1].pc = "mem_move_send"
    /\ procs[1].sid = 1
    /\ procs[1].loc.websockets = <<1>>
    /\ get_websockets(2) = <<2>>
    /\ {1, 2} \subseteq DOMAIN sessions

(***************************************************************************)
(* Properties of AlignmentService.compare_transcript                       *)
(***************************************************************************)
\* the call has returned
CompareReturned == call.fn = "compare_transcript" /\ call.pc = "returned"

\* what it returned
CompareResults == call.returned[1].results
CompareSummary == call.returned[1].summary

\* a text that is empty or made of whitespace only
Blank(text) == \A i \in 1..Len(text) : text[i] = SP

\* every expected word is reported Skipped, with no spoken word and no score
AllSkipped ==
    /\ Len(CompareResults) = Len(call.expected_words)
    /\ \A i \in 1..Len(CompareResults) :
          /\ CompareResults[i].status = "skipped"
          /\ CompareResults[i].spoken = <<>>
          /\ CompareResults[i].similarity_score = <<>>

\* C22 (as stated): for a non-empty expected list and a blank spoken text,
\* every expected word is Skipped with spoken and similarity absent and the
\* summary says skipped = len(expected), matched = mismatched = 0, whether the
\* call is final or provisional.
C22_BlankSkipsAllAndCountsThem ==
    CompareReturned /\ call.expected_words # <<>> /\ Blank(call.spoken_transcript)
    => /\ AllSkipped
       /\ CompareSummary.skipped = Len(call.expected_words)
       /\ CompareSummary.matched = 0
       /\ CompareSummary.mismatched = 0

\* C22 (amended): for a non-empty expected list and a blank spoken text,
\* every expected word is Skipped with spoken and similarity absent in both
\* modes; the summary of a final call says skipped = len(expected), that of
\* a provisional call says skipped = 0; matched = mismatched = 0 in both.
C22_BlankSkipsAllCountsWhenFinal ==
    CompareReturned /\ call.expected_words # <<>> /\ Blank(call.spoken_transcript)
    => /\ AllSkipped
       /\ CompareSummary.skipped = IF call.is_final THEN Len(call.expected_words) ELSE 0
       /\ CompareSummary.matched = 0
       /\ CompareSummary.mismatched = 0
       /\ CompareSummary.total = Len(call.expected_words)

\* a provisional call with two expected words and a whitespace-only text
\* has returned
C22_Witness ==
    /\ CompareReturned
    /\ Len(call.expected_words) = 2
    /\ call.spoken_transcript = <<SP, SP>>
    /\ ~call.is_final

\* the spoken tokens are the expected words, one for one and in order
SpokenIsExpected ==
    /\ call.fn = "compare_transcript"
    /\ call.pc \in {"loop", "returned"}
    /\ call.expected_words # <<>>
    /\ call.spoken_words = call.expected_words

\* C23: when the spoken tokens are exactly the expected words in the same
\* order, a final compare pairs expected word i with spoken token i (each
\* turn of the loop consumes the token at its own position), marks every word
\* Matched with similarity 1.0 and that token as spoken, and reports
\* matched = len(expected), mismatched = skipped = 0.
C23_IdenticalTokensAllMatched ==
    /\ [](SpokenIsExpected /\ call.is_final /\ call.pc = "returned"
           => /\ Len(CompareResults) = Len(call.expected_words)
              /\ \A i \in 1..Len(CompareResults) :
                    /\ CompareResults[i].status = "matched"
                    /\ CompareResults[i].similarity_score = << <<1, 1>> >>
                    /\ CompareResults[i].spoken = <<call.spoken_words[i]>>
                    /\ CompareResults[i].expected = call.expected_words[i]
              /\ CompareSummary.matched = Len(call.expected_words)
              /\ CompareSummary.mismatched = 0
              /\ CompareSummary.skipped = 0)
    /\ [][SpokenIsExpected /\ call.is_final /\ call.pc = "loop"
           /\ call'.pc = "loop"
           => call'.acc.used = call.acc.used \cup {call.position}]_vars

\* a final compare of a word said twice against the same word expected twice
\* has returned
C23_Witness ==
    /\ CompareReturned
    /\ call.is_final
    /\ call.expected_words = <<W2, W2>>
    /\ call.spoken_words = <<W2, W2>>

\* the spoken tokens (0-based) no earlier expected word has consumed
Unconsumed == {i \in 0..(Len(call.spoken_words) - 1) : i \notin call.acc.used}

\* the similarities of the expected word of this turn to every spoken token
TurnSims ==
    [i \in 0..(Len(call.spoken_words) - 1) |->
        calculate_similarity(call.expected_words[call.position + 1],
                             call.spoken_words[i + 1])]

\* the verdict of the turn matches a best similarity s reached on token b
TurnVerdict(sims, b, result) ==
    IF b = -1 \/ RLeq(sims[b], partial_threshold)
    THEN /\ result.status = "skipped"
         /\ result.spoken = <<>>
         /\ result.similarity_score = <<>>
         /\ call'.acc.used = call.acc.used
    ELSE /\ result.status =
               IF RLeq(similarity_threshold, sims[b])
               THEN (IF call.is_final THEN "matched" ELSE "provis_matched")
               ELSE (IF call.is_final THEN "mismatched" ELSE "provis_mismatched")
         /\ result.spoken = <<call.spoken_words[b + 1]>>
         /\ result.similarity_score = <<sims[b]>>
         /\ call'.acc.used = call.acc.used \cup {b}

\* C24: in each turn of the loop, with s the best similarity of the expected
\* word over the spoken tokens not yet consumed: s >= 0.7 gives Matched
\* (final) or ProvisionalMatched and consumes a token that scores s;
\* 0.3 < s < 0.7 gives Mismatched or ProvisionalMismatched and consumes it
\* too; s <= 0.3, or no unconsumed token, gives Skipped in both modes,
\* consumes nothing and leaves spoken and similarity absent.
C24_VerdictFollowsBestSimilarity ==
    [][call.pc = "loop" /\ call'.pc = "loop"
       => /\ Len(call'.acc.results) = call.position + 1
          /\ \E b \in Unconsumed \cup {-1} :
                /\ b = -1 <=> Unconsumed = {}
                /\ b # -1 => \A i \in Unconsumed : RLeq(TurnSims[i], TurnSims[b])
                /\ TurnVerdict(TurnSims, b, call'.acc.results[call.position + 1])]_vars

\* a turn has met a best similarity of exactly 0.3 and reported Skipped, and
\* an earlier turn one between 0.3 and 0.7 and reported Mismatched
C24_Witness ==
    /\ call.fn = "compare_transcript"
    /\ call.pc = "loop"
    /\ call.is_final
    /\ call.expected_words = <<W2, WX, W1>>
    /\ call.spoken_words = <<W3, W1S>>
    /\ call.position = 3
    /\ call.acc.results[1].status = "mismatched"
    /\ call.acc.results[2].status = "skipped"
    /\ call.acc.results[3].status = "matched"
    /\ call.acc.used = {0, 1}

\* the results that carry status st
WithStatus(results, st) == {i \in 1..Len(results) : results[i].status = st}

\* C25: the summary counts tally final verdicts only: after a final compare
\* matched, mismatched and skipped are the numbers of results with status
\* Matched, Mismatched and Skipped and add up to total; after a provisional
\* compare the three counts are 0 and no result is Matched or Mismatched.
C25_SummaryTalliesFinalVerdicts ==
    CompareReturned =>
       IF call.is_final
       THEN /\ CompareSummary.matched = Cardinality(WithStatus(CompareResults, "matched"))
            /\ CompareSummary.mismatched
                  = Cardinality(WithStatus(CompareResults, "mismatched"))
            /\ CompareSummary.skipped = Cardinality(WithStatus(CompareResults, "skipped"))
            /\ CompareSummary.matched + CompareSummary.mismatched + CompareSummary.skipped
                  = CompareSummary.total
       ELSE /\ CompareSummary.matched = 0
            /\ CompareSummary.mismatched = 0
            /\ CompareSummary.skipped = 0
            /\ WithStatus(CompareResults, "matched") = {}
            /\ WithStatus(CompareResults, "mismatched") = {}

\* a provisional compare has returned one provisional match, one provisional
\* mismatch and one skip
C25_Witness ==
    /\ CompareReturned
    /\ ~call.is_final
    /\ WithStatus(CompareResults, "provis_matched") # {}
    /\ WithStatus(CompareResults, "provis_mismatched") # {}
    /\ WithStatus(CompareResults, "skipped") # {}

\* C26: compare returns exactly one result per expected word, in order:
\* result i (counted from 0) has position i and the expected word i, and
\* summary.total is the number of expected words, for every input and both
\* modes; for an empty expected list it returns no results and a summary
\* of zeros.
C26_OneResultPerExpectedWord ==
    CompareReturned =>
       /\ Len(CompareResults) = Len(call.expected_words)
       /\ \A i \in 1..Len(CompareResults) :
             /\ CompareResults[i].position = i - 1
             /\ CompareResults[i].expected = call.expected_words[i]
       /\ CompareSummary.total = Len(call.expected_words)
       /\ call.expected_words = <<>>
             => /\ CompareResults = <<>>
                /\ CompareSummary = [matched |-> 0, mismatched |-> 0,
                                     skipped |-> 0, total |-> 0]

\* a compare of three expected words against two spoken ones has returned
C26_Witness ==
    /\ CompareReturned
    /\ Len(call.expected_words) = 3
    /\ Len(call.spoken_words) = 2
    /\ CompareResults[3].position = 2

(***************************************************************************)
(* Properties of the position index                                        *)
(***************************************************************************)
\* the number of dots of a string
Dots(index) == Cardinality({i \in 1..Len(index) : index[i] = DOT})

\* a text int() accepts: digits, with an optional sign before them and
\* whitespace around
IntegerParseable(text) ==
    \E i, j \in 1..Len(text) :
       /\ i <= j
       /\ \A k \in 1..Len(text) : (k < i \/ k > j) => text[k] = SP
       /\ \/ \A k \in i..j : IsDigit(text[k])
          \/ text[i] = MINUS /\ i < j /\ \A k \in (i + 1)..j : IsDigit(text[k])

\* the string splits on '.' into exactly three integer-parseable parts
ThreeIntegerParts(index) ==
    /\ Dots(index) = 2
    /\ \A part \in 1..3 : IntegerParseable(SplitOnDot(index, <<>>)[part])

\* C27: parse(index(c, u, w)) = (c, u, w) for non-negative integers, and
\* parse raises its format error, returning no value, exactly for the strings
\* that do not split on '.' into three integer-parseable parts.
C27_IndexRoundTrip ==
    call.fn = "parse_position_index" /\ call.pc \in {"returned", "raised"}
    => /\ call.args # <<>> => call.pc = "returned" /\ call.returned = <<call.args>>
       /\ call.pc = "raised" <=> ~ThreeIntegerParts(call.index)
       /\ call.pc = "raised" => call.returned = <<>>

\* the index of (11, 5, 10) has been generated and parsed back
C27_Witness ==
    /\ call.fn = "parse_position_index"
    /\ call.pc = "returned"
    /\ call.args = <<11, 5, 10>>
    /\ Len(call.index) = 7

(***************************************************************************)
(* Properties of LiveSessionService._advance_to_next_ayah                  *)
(***************************************************************************)
\* the ayah that follows the ayah `unit` in the traversal order of the mode,
\* 0 when it is the last one
UnitAfter(unit, mode) ==
    LET ordered == IF mode = "surah" THEN AscendingFrom(1, AyahNumbers)
                   ELSE IF mode = "page" THEN get_ayat_by_page(unit.page)
                   ELSE get_ayat_by_juz(unit.juz)
        at == CHOOSE k \in 1..Len(ordered) : ordered[k] = unit.ayah
    IN  IF at < Len(ordered) THEN ordered[at + 1] ELSE 0

HoldsResults(p) ==
    \/ procs[p].pc = "save_transcript"
    \/ procs[p].pc = "transcript_send" /\ procs[p].loc.pending = <<"transcript_result">>

\* C31: the results a transcript handler holds are one per expected word at
\* the indices position .. min(position + 10, len(words)) - 1 of the current
\* ayah, each with that word and that absolute index; so a final call matches
\* at most 10 words and at most len(words) - position.
C31_WindowIsNextTenWords ==
    \A p \in Procs :
       HoldsResults(p) =>
          LET words == procs[p].loc.current_words
              position == procs[p].loc.current_position
              results == procs[p].loc.results
              stop == Min2(position + 10, Len(words))
          IN  /\ Len(results) = Max2(stop - position, 0)
              /\ \A k \in 1..Len(results) :
                    /\ results[k].position = position + k - 1
                    /\ results[k].expected = words[position + k]
              /\ CountMatched(results) <= 10
              /\ CountMatched(results) <= Len(words) - position

\* C32: when the in-memory service has handled a final transcript of the
\* live WebSocket, the position held in the session store is the position
\* the transcript was compared at plus the number of its Matched results.
C32_FinalTranscriptMovesStoredPosition ==
    [][\A p \in Procs :
         /\ HandleTranscriptSend(p, "ok")
         /\ procs[p].loc.pending = <<"transcript_result">>
         /\ procs[p].loc.is_final
         /\ procs[p].sid \in DOMAIN sessions
         => sessions'[procs[p].sid].position
               = procs[p].loc.current_position + CountMatched(procs[p].loc.results)]_vars

(***************************************************************************)
(* Properties of the notifications                                         *)
(***************************************************************************)
\* the positions of the code at which a handler is sending a notification to
\* the observers of its session
NotifyingPcs == {"mem_move_send", "mem_end_send"}

\* the step in which handler p of LiveSessionService commits a new ayah or
\* position by an advance or a move, or ends the session
LiveChangeCommitted(p) ==
    /\ \/ LiveAdvance(p, "ok")
       \/ LiveMoveCommit(p, "ok")
       \/ \E sid \in SessionIds : LiveEndSession(p, sid, "ok")
    /\ active_sessions' # active_sessions

WithSpoken(results) == {i \in 1..Len(results) : results[i].spoken # <<>>}

\* C34: within one compare call no spoken token is given to two expected
\* words: a turn that reports a spoken token takes one that no earlier turn
\* has taken, so the results with a spoken value are as many as the tokens
\* taken, and never more than the spoken tokens.
C34_NoTokenUsedTwice ==
    /\ [](call.fn = "compare_transcript" /\ call.pc \in {"loop", "returned"}
           => /\ Cardinality(WithSpoken(call.acc.results)) = Cardinality(call.acc.used)
              /\ Cardinality(WithSpoken(call.acc.results)) <= Len(call.spoken_words)
              /\ call.acc.used \subseteq 0..(Len(call.spoken_words) - 1))
    /\ [][call.pc = "loop" /\ call'.pc = "loop"
           /\ call'.acc.results[call.position + 1].spoken # <<>>
           => \E b \in Unconsumed :
                 /\ call'.acc.used = call.acc.used \cup {b}
                 /\ call'.acc.results[call.position + 1].spoken
                       = <<call.spoken_words[b + 1]>>]_vars

\* a word expected three times and said twice: two results carry a token,
\* the third found every token taken
C34_Witness ==
    /\ CompareReturned
    /\ call.expected_words = <<W2, W2, W2>>
    /\ call.spoken_words = <<W2, W2>>
    /\ Cardinality(WithSpoken(CompareResults)) = 2
    /\ CompareResults[3].status = "skipped"

\* the order in which the tokens are examined for expected word i of a call
\* with n spoken tokens: min(i, n - 1), ..., n - 1, 0, ..., min(i, n - 1) - 1
ExaminedOrder(i, n) == [k \in 1..n |-> (Min2(i, n - 1) + k - 1) % n]

\* the places of ExaminedOrder that hold an unconsumed token scoring above 0
Eligible(order, sims) ==
    {k \in 1..Len(order) : order[k] \in Unconsumed /\ RLess(<<0, 1>>, sims[order[k]])}

\* place k holds the strictly highest score of the eligible places, the
\* earliest among equal scores
IsChoice(k, order, sims) ==
    /\ k \in Eligible(order, sims)
    /\ \A j \in Eligible(order, sims) :
          \/ RLess(sims[order[j]], sims[order[k]])
          \/ sims[order[j]] = sims[order[k]] /\ k <= j

\* the turn reports the token of place k, or Skipped when that token scores
\* 0.3 or less
ReportsChoice(k, order, sims, result) ==
    IF RLeq(sims[order[k]], partial_threshold)
    THEN result.spoken = <<>> /\ call'.acc.used = call.acc.used
    ELSE /\ result.spoken = <<call.spoken_words[order[k] + 1]>>
         /\ result.similarity_score = <<sims[order[k]]>>
         /\ call'.acc.used = call.acc.used \cup {order[k]}

\* C35: for expected word i the tokens are examined in the order min(i, n-1),
\* ..., n-1, 0, ..., min(i, n-1)-1, consumed ones skipped; the token chosen has
\* the strictly highest similarity, the earliest in that order among equal
\* scores, and a token of similarity 0 is never chosen.
C35_FirstBestInSearchOrder ==
    [][call.pc = "loop" /\ call'.pc = "loop" /\ call.spoken_words # <<>>
       => IF Eligible(ExaminedOrder(call.position, Len(call.spoken_words)), TurnSims) = {}
          THEN /\ call'.acc.results[call.position + 1].spoken = <<>>
               /\ call'.acc.used = call.acc.used
          ELSE \E k \in 1..Len(call.spoken_words) :
                  /\ IsChoice(k, ExaminedOrder(call.position, Len(call.spoken_words)),
                              TurnSims)
                  /\ ReportsChoice(k, ExaminedOrder(call.position,
                                                    Len(call.spoken_words)),
                                   TurnSims, call'.acc.results[call.position + 1])]_vars

\* the second expected word found both tokens free and equal, and took the
\* one at its own index, the first of its search order
C35_Witness ==
    /\ CompareReturned
    /\ call.expected_words = <<WL, W2>>
    /\ call.spoken_words = <<W2, W2>>
    /\ call.acc.used = {1}

(***************************************************************************)
(* Properties of a final update that resumes after an End or a move        *)
(***************************************************************************)
\* the session's row says it has ended
RowEnded(sid) ==
    /\ get_live_session(live_sessions, sid) # <<>>
    /\ get_live_session(live_sessions, sid)[1].status = "ended"

C38_MoveReportsPreviousAyah ==
    [][\A p \in Procs :
         (/\ MemMoveCommitted(p)
          /\ procs'[p].pc = "mem_move_send"
          /\ sessions[procs[p].sid].ayah # procs[p].loc.new_ayah)
         => /\ procs'[p].loc.previous_ayah = sessions[procs[p].sid].ayah
            /\ procs'[p].loc.new_ayah = sessions'[procs[p].sid].ayah]_vars

C40_ObserverStaysRegistered ==
    \A p \in Procs :
       (/\ procs[p].pc = "ws_receive"
        /\ procs[p].loc.pending # <<"send_failed">>)
       => /\ procs[p].sid \in DOMAIN active_connections
          /\ active_connections[procs[p].sid] = Head(procs[p].loc.websockets)

====
